---------------------------- MODULE Spec2Model ----------------------------
(***************************************************************************)
(* The task engine of rust_playground: the shared task queue (TaskPool),   *)
(* the thread-backed worker (ThreadExecutor) and its pool (ThreadPool) of  *)
(* src/taskmanager, and the cooperative pool (AsyncThreadPool) of          *)
(* src/taskmanager_async.  A pool is of one kind, fixed at construction.   *)
(* And the key/value store with rules and change listeners                 *)
(* (ParameterManager) of src/datamanager.                                  *)
(***************************************************************************)
EXTENDS Integers, Sequences, FiniteSets, TLC

(* ------------------------------ bounds -------------------------------- *)

\* number of distinct task objects the caller may create
MaxTasks == 3

\* largest num_threads the caller passes to ThreadPool::new
MaxThreads == 2

\* number of calls a direct caller makes on the TaskPool
MaxCalls == 5

\* number of calls a caller makes on the ParameterManager
MaxParamCalls == 3

\* number of lines of a stream handed to restore_from_stream
MaxLines == 2

\* number of calls of ParameterManager::get_manager
MaxHandles == 2

\* the demo program of src/taskmanager/src/main.rs
DemoThreads == 4

DemoTasks == 5

DemoMoreTasks == 2

(* ------------------------------- state -------------------------------- *)

VARIABLES
  kind,                  \* "parallel" (taskmanager) or "cooperative" (taskmanager_async)
  max_threads,           \* ThreadPool.max_threads
  tasks,                 \* TaskPool.tasks: the VecDeque behind the mutex
  thread,                \* ThreadExecutor.thread of each slot: "None" or "Some"
  stopping,              \* ThreadExecutor.stopping of each slot
  current_running_task,  \* ThreadExecutor.current_running_task of each slot
  wpc,                   \* where the thread spawned for a slot is in _execute
  wtask,                 \* the local `task` of that thread
  live,                  \* execution contexts of a slot that are spawned and not exited
  cpc,                   \* where the caller is: "idle", or inside terminate()
  ti,                    \* ThreadPool::terminate's loop index
  dpc,                   \* where AsyncThreadPool::execute is
  jobs,                  \* the jobs handed to tokio::spawn, in dispatch order
  executed,              \* how many times on_execute of each task has run
  completed,             \* how many times on_complete of each task has run
  tracing,               \* whether the calls are also written to log
  log,                   \* what each execution context did, in order: <<"execute"|"complete", task>>
  submitted,             \* tasks handed to add_task
  cancelled,             \* tasks handed to cancel_task while still queued
  ranLast,               \* execute() has been called and no add_task since
  liveAtCall,            \* terminate() is the latest call on the pool and found a worker thread live
  parked,                \* tasks handed to add_task since the latest terminate(), before any execute()
  phase,                 \* "new", "running" (execute() called), "terminated" (terminate() returned)
  main,                  \* what is left of a scripted caller (<<>> for a free caller)
  calls,                 \* the calls made on the TaskPool by a direct caller: <<op, task, what it returned>>
  auditing,              \* whether cancel_task calls that find nothing queued are written to missed
  missed,                \* tasks handed to cancel_task after add_task, while not queued
  faulting,              \* whether a task's on_execute or on_complete may panic
  faulted,               \* tasks whose on_execute or on_complete panicked
  params,                \* ParameterManager.params: key -> value
  param_rules,           \* ParameterManager.param_rules: key -> ParamRule
  listeners,             \* ParameterManager.listeners: key -> the Listeners (by listener_id), in order
  wild_card_listeners,   \* ParameterManager.wild_card_listeners: prefix -> the Listeners, in order
  listener_id_reverse,   \* ParameterManager.listener_id_reverse: listener_id -> the key registered
  listener_id,           \* ParameterManager.listener_id: the next id to hand out
  pmcall,                \* the latest call made on the ParameterManager and what it returned
  pmcount,               \* how many calls have been made on the ParameterManager
  notified,              \* the callbacks the latest call invoked, in order: [id, key, value]
  instance,              \* get_manager's static INSTANCE: << >> for None, <<manager>> for Some
  heap,                  \* the ParameterManagers behind the Arcs that get_manager made
  handles,               \* the Arcs get_manager returned, in order: each the place in heap it points to
  guard                  \* the handle whose lock() the caller holds and calls through (0: none)

vars == <<kind, max_threads, tasks, thread, stopping, current_running_task,
          wpc, wtask, live, cpc, ti, dpc, jobs, executed, completed, tracing, log,
          submitted, cancelled,
          ranLast, liveAtCall, parked, phase, main, calls, auditing, missed,
          faulting, faulted,
          params, param_rules, listeners, wild_card_listeners, listener_id_reverse,
          listener_id, pmcall, pmcount, notified, instance, heap, handles, guard>>

NoTask == -1

TaskIds(n) == 0 .. (n - 1)

Slots == 1 .. max_threads

Range(s) == {s[i] : i \in 1 .. Len(s)}

(* --------------------------- TaskPool (queue) ------------------------- *)

\* TaskPool::new
TaskPoolNew == << >>

\* a faulty enqueue: push_front instead of push_back
enqueue_at_front(q, task) == <<task>> \o q

\* TaskPool::enqueue: push_back under the lock
enqueue(q, task) == Append(q, task)

\* a faulty dequeue: returns the head and leaves it in the deque
dequeue_without_removal(q) == IF q = << >> THEN <<NoTask, q>> ELSE <<Head(q), q>>

\* a faulty dequeue: always signals that the deque is empty
dequeue_nothing(q) == <<NoTask, q>>

\* a faulty dequeue: pop_back instead of pop_front
dequeue_from_back(q) ==
  IF q = << >> THEN <<NoTask, q>> ELSE <<q[Len(q)], SubSeq(q, 1, Len(q) - 1)>>

\* TaskPool::dequeue: pop_front under the lock, as <<what it returns, what it
\* leaves in the deque>> (NoTask stands for Option::None)
dequeue(q) == IF q = << >> THEN <<NoTask, q>> ELSE <<Head(q), Tail(q)>>

\* what a task object holds (MyTask.id): distinct objects may hold the same
ContentOf(task) == task % 2

\* a faulty erase: compares what the tasks hold instead of Arc::ptr_eq
erase_by_content(q, task) == SelectSeq(q, LAMBDA t : ContentOf(t) # ContentOf(task))

\* a faulty erase: drops the head when the task is not in the deque
erase_head_if_absent(q, task) ==
  IF \E i \in 1 .. Len(q) : q[i] = task
    THEN SelectSeq(q, LAMBDA t : t # task)
    ELSE IF q = << >> THEN q ELSE Tail(q)

\* a faulty erase: retains every entry
erase_nothing(q, task) == q

\* TaskPool::erase: retain(|t| !Arc::ptr_eq(t, &task))
erase(q, task) == SelectSeq(q, LAMBDA t : t # task)

\* a faulty clear: leaves the head of the deque
clear_keeps_head(q) == IF q = << >> THEN q ELSE <<Head(q)>>

\* TaskPool::clear
clear(q) == << >>

\* TaskPool::is_empty
is_empty(q) == q = << >>

(* ------------------------------ the log ------------------------------- *)

Event(what, task) == <<what, task>>

\* the log with one more event of context ctx
Logged(ctx, what, task) ==
  IF tracing THEN [log EXCEPT ![ctx] = Append(@, Event(what, task))] ELSE log

\* a call counter with one more call on task
Counted(counter, task) == [counter EXCEPT ![task] = @ + 1]

\* the call counters once task exists
Created(counter, task) == [t \in DOMAIN counter \cup {task} |-> IF t = task THEN 0 ELSE counter[t]]

\* a task's on_execute or on_complete runs in execution context ctx
Call(what, ctx, task) ==
  /\ log' = Logged(ctx, what, task)
  /\ executed' = IF what = "execute" THEN Counted(executed, task) ELSE executed
  /\ completed' = IF what = "complete" THEN Counted(completed, task) ELSE completed
  /\ tracing' = tracing

ExecCount(task) == IF task \in DOMAIN executed THEN executed[task] ELSE 0

CompleteCount(task) == IF task \in DOMAIN completed THEN completed[task] ELSE 0


\* missed with one more cancel_task call, on a submitted task that is not queued
Missed(task) ==
  IF auditing /\ task \in submitted /\ task \notin Range(tasks)
    THEN missed \cup {task}
    ELSE missed

\* the caller's tasks are distinct objects; the i-th one it creates is given id i - 1
NextTaskId == Cardinality(submitted)

(* --------------------------- variable groups -------------------------- *)

shapeVars == <<kind, max_threads>>

executorVars == <<thread, stopping, current_running_task>>

threadVars == <<wpc, wtask, live>>

callerVars == <<cpc, ti>>

asyncVars == <<dpc, jobs>>

historyVars == <<submitted, cancelled, ranLast, liveAtCall, parked, phase>>

observerVars == <<executed, completed, tracing, log>>

recordVars == <<calls, auditing, faulting, faulted>>

managerVars == <<params, param_rules, listeners, wild_card_listeners, listener_id_reverse,
                 listener_id>>

registryVars == <<instance, heap, handles, guard>>

pmVars == <<managerVars, pmcall, pmcount, notified, registryVars>>

(* ------------------- ThreadExecutor (parallel model) ------------------ *)

\* ThreadExecutor::new: no thread, not stopping, no current task
ThreadExecutorNew(n) ==
  /\ thread = [w \in 1 .. n |-> "None"]
  /\ stopping = [w \in 1 .. n |-> FALSE]
  /\ current_running_task = [w \in 1 .. n |-> NoTask]
  /\ wpc = [w \in 1 .. n |-> "none"]
  /\ wtask = [w \in 1 .. n |-> NoTask]
  /\ live = [w \in 1 .. n |-> 0]

\* a faulty ThreadExecutor::execute: spawns without looking at self.thread
SpawnNeeded_unchecked(w) == TRUE

\* ThreadExecutor::execute: `if self.thread.is_none()`

SpawnNeeded(w) == thread[w] = "None"

\* a faulty ThreadExecutor::terminate: drops the handle without joining
Joined_without_waiting(w) == TRUE

\* ThreadExecutor::terminate: `thread.join()` returns once the thread has ended

Joined(w) == wpc[w] = "exited"

\* ThreadExecutor::cancel_task_if_running: the test guarding its (empty) cancel logic
cancel_task_if_running(w, task) ==
  /\ current_running_task[w] # NoTask
  /\ current_running_task[w] = task

\* a faulty _execute: returns as soon as terminate() has set the stopping flag
WorkerIsEmpty_stopping(w) ==
  /\ kind = "parallel"
  /\ wpc[w] = "is_empty"
  /\ IF is_empty(tasks) \/ stopping[w]
       THEN /\ wpc' = [wpc EXCEPT ![w] = "exited"]
            /\ live' = [live EXCEPT ![w] = @ - 1]
       ELSE /\ wpc' = [wpc EXCEPT ![w] = "dequeue"]
            /\ live' = live
  /\ UNCHANGED <<shapeVars, pmVars, recordVars, missed, tasks, executorVars, wtask, callerVars, asyncVars,
                 observerVars, historyVars, main>>

\* a faulty _execute: keeps polling an empty queue instead of returning
WorkerIsEmpty_spinning(w) ==
  /\ kind = "parallel"
  /\ wpc[w] = "is_empty"
  /\ wpc' = [wpc EXCEPT ![w] = IF is_empty(tasks) THEN "yield" ELSE "dequeue"]
  /\ UNCHANGED <<shapeVars, pmVars, recordVars, missed, tasks, executorVars, wtask, live, callerVars, asyncVars,
                 observerVars, historyVars, main>>

\* ThreadExecutor::_execute, `while !task_pool.is_empty()`
WorkerIsEmpty(w) ==
  /\ kind = "parallel"
  /\ wpc[w] = "is_empty"
  /\ IF is_empty(tasks)
       THEN /\ wpc' = [wpc EXCEPT ![w] = "exited"]
            /\ live' = [live EXCEPT ![w] = @ - 1]
       ELSE /\ wpc' = [wpc EXCEPT ![w] = "dequeue"]
            /\ live' = live
  /\ UNCHANGED <<shapeVars, pmVars, recordVars, missed, tasks, executorVars, wtask, callerVars, asyncVars,
                 observerVars, historyVars, main>>

\* a faulty _execute: goes on to on_execute whatever dequeue returned
WorkerDequeue_unchecked(w) ==
  /\ kind = "parallel"
  /\ wpc[w] = "dequeue"
  /\ wtask' = [wtask EXCEPT ![w] = dequeue(tasks)[1]]
  /\ tasks' = dequeue(tasks)[2]
  /\ wpc' = [wpc EXCEPT ![w] = "on_execute"]
  /\ UNCHANGED <<shapeVars, pmVars, recordVars, missed, executorVars, live, callerVars, asyncVars,
                 observerVars, historyVars, main>>

\* ThreadExecutor::_execute, `if let Some(task) = task_pool.dequeue()`
WorkerDequeue(w) ==
  /\ kind = "parallel"
  /\ wpc[w] = "dequeue"
  /\ wtask' = [wtask EXCEPT ![w] = dequeue(tasks)[1]]
  /\ tasks' = dequeue(tasks)[2]
  /\ wpc' = [wpc EXCEPT ![w] = IF dequeue(tasks)[1] # NoTask THEN "on_execute" ELSE "yield"]
  /\ UNCHANGED <<shapeVars, pmVars, recordVars, missed, executorVars, live, callerVars, asyncVars,
                 observerVars, historyVars, main>>

\* a faulty _execute: calls on_complete where on_execute belongs
WorkerOnExecute_swapped(w) ==
  /\ kind = "parallel"
  /\ wpc[w] = "on_execute"
  /\ Call("complete", w, wtask[w])
  /\ wpc' = [wpc EXCEPT ![w] = "on_complete"]
  /\ UNCHANGED <<shapeVars, pmVars, recordVars, missed, tasks, executorVars, wtask, live, callerVars, asyncVars,
                 historyVars, main>>

\* ThreadExecutor::_execute, `task.on_execute()`
WorkerOnExecute(w) ==
  /\ kind = "parallel"
  /\ wpc[w] = "on_execute"
  /\ Call("execute", w, wtask[w])
  /\ wpc' = [wpc EXCEPT ![w] = "on_complete"]
  /\ UNCHANGED <<shapeVars, pmVars, recordVars, missed, tasks, executorVars, wtask, live, callerVars, asyncVars,
                 historyVars, main>>

\* ThreadExecutor::_execute, `task.on_complete()`, then back to the loop test
WorkerOnComplete(w) ==
  /\ kind = "parallel"
  /\ wpc[w] = "on_complete"
  /\ Call("complete", w, wtask[w])
  /\ wpc' = [wpc EXCEPT ![w] = "is_empty"]
  /\ wtask' = [wtask EXCEPT ![w] = NoTask]
  /\ UNCHANGED <<shapeVars, pmVars, recordVars, missed, tasks, executorVars, live, callerVars, asyncVars,
                 historyVars, main>>

\* ThreadExecutor::_execute, `thread::yield_now()`, then back to the loop test
WorkerYield(w) ==
  /\ kind = "parallel"
  /\ wpc[w] = "yield"
  /\ wpc' = [wpc EXCEPT ![w] = "is_empty"]
  /\ UNCHANGED <<shapeVars, pmVars, recordVars, missed, tasks, executorVars, wtask, live, callerVars, asyncVars,
                 observerVars, historyVars, main>>

\* ThreadExecutor::_execute, `task.on_execute()` or `task.on_complete()` panics:
\* the thread unwinds, dropping its task, and ends
WorkerPanic(w) ==
  /\ kind = "parallel"
  /\ faulting
  /\ wpc[w] \in {"on_execute", "on_complete"}
  /\ wpc' = [wpc EXCEPT ![w] = "panicked"]
  /\ live' = [live EXCEPT ![w] = @ - 1]
  /\ faulted' = faulted \cup {wtask[w]}
  /\ wtask' = [wtask EXCEPT ![w] = NoTask]
  /\ UNCHANGED <<shapeVars, pmVars, calls, auditing, faulting, missed, tasks, executorVars,
                 callerVars, asyncVars, observerVars, historyVars, main>>

(* ----------------------- ThreadPool (parallel model) ------------------ *)

\* ThreadPool::new(num_threads)
ThreadPoolNew(num_threads) ==
  /\ kind = "parallel"
  /\ max_threads = num_threads
  /\ tasks = TaskPoolNew
  /\ ThreadExecutorNew(num_threads)
  /\ cpc = "idle"
  /\ ti = 0
  /\ dpc = "idle"
  /\ jobs = << >>
  /\ executed = << >>
  /\ completed = << >>
  /\ log = [w \in 1 .. num_threads |-> << >>]
  /\ submitted = {}
  /\ cancelled = {}
  /\ ranLast = FALSE
  /\ liveAtCall = FALSE
  /\ parked = {}
  /\ phase = "new"
  /\ calls = << >>
  /\ missed = {}
  /\ faulted = {}

\* ThreadPool::add_task
ThreadPoolAddTask(task) ==
  /\ kind = "parallel"
  /\ cpc = "idle"
  /\ task = NextTaskId
  /\ tasks' = enqueue(tasks, task)
  /\ submitted' = submitted \cup {task}
  /\ parked' = IF phase = "terminated" THEN parked \cup {task} ELSE parked
  /\ ranLast' = FALSE
  /\ liveAtCall' = FALSE
  /\ executed' = Created(executed, task)
  /\ completed' = Created(completed, task)
  /\ UNCHANGED <<shapeVars, pmVars, recordVars, missed, executorVars, threadVars, callerVars, asyncVars,
                 tracing, log, cancelled, phase>>

\* a faulty ThreadPool::cancel_task: a worker that holds the task drops it
ThreadPoolCancelTask_aborting(task) ==
  /\ kind = "parallel"
  /\ cpc = "idle"
  /\ tasks' = erase(tasks, task)
  /\ cancelled' = IF task \in Range(tasks) THEN cancelled \cup {task} ELSE cancelled
  /\ missed' = Missed(task)
  /\ wpc' = [w \in Slots |-> IF wtask[w] = task THEN "is_empty" ELSE wpc[w]]
  /\ wtask' = [w \in Slots |-> IF wtask[w] = task THEN NoTask ELSE wtask[w]]
  /\ liveAtCall' = FALSE
  /\ UNCHANGED <<shapeVars, pmVars, recordVars, executorVars, live, callerVars, asyncVars,
                 observerVars, submitted, ranLast, parked, phase>>

\* ThreadPool::cancel_task: erase, then cancel_task_if_running on every slot
ThreadPoolCancelTask(task) ==
  /\ kind = "parallel"
  /\ cpc = "idle"
  /\ tasks' = erase(tasks, task)
  /\ cancelled' = IF task \in Range(tasks) THEN cancelled \cup {task} ELSE cancelled
  /\ current_running_task' =
       [w \in Slots |-> IF cancel_task_if_running(w, task)
                          THEN current_running_task[w]
                          ELSE current_running_task[w]]
  /\ missed' = Missed(task)
  /\ liveAtCall' = FALSE
  /\ UNCHANGED <<shapeVars, pmVars, recordVars, thread, stopping, threadVars, callerVars, asyncVars,
                 observerVars, submitted, ranLast, parked, phase>>

\* ThreadPool::execute: ThreadExecutor::execute on every slot
ThreadPoolExecute ==
  /\ kind = "parallel"
  /\ cpc = "idle"
  /\ thread' = [w \in Slots |-> IF SpawnNeeded(w) THEN "Some" ELSE thread[w]]
  /\ wpc' = [w \in Slots |-> IF SpawnNeeded(w) THEN "is_empty" ELSE wpc[w]]
  /\ wtask' = [w \in Slots |-> IF SpawnNeeded(w) THEN NoTask ELSE wtask[w]]
  /\ live' = [w \in Slots |-> IF SpawnNeeded(w) THEN live[w] + 1 ELSE live[w]]
  /\ ranLast' = TRUE
  /\ liveAtCall' = FALSE
  /\ phase' = "running"
  /\ UNCHANGED <<shapeVars, pmVars, recordVars, missed, tasks, stopping, current_running_task, callerVars,
                 asyncVars, observerVars, submitted, cancelled, parked>>

\* ThreadPool::terminate is entered
ThreadPoolTerminate ==
  /\ kind = "parallel"
  /\ cpc = "idle"
  /\ cpc' = "terminate"
  /\ ti' = 1
  /\ liveAtCall' = (\E w \in Slots : live[w] > 0)
  /\ UNCHANGED <<shapeVars, pmVars, recordVars, missed, tasks, executorVars, threadVars, asyncVars,
                 observerVars, submitted, cancelled, ranLast, parked, phase>>

\* ThreadExecutor::terminate on slot ti, up to the join
TerminateThread ==
  /\ kind = "parallel"
  /\ cpc = "terminate"
  /\ ti <= max_threads
  /\ IF thread[ti] = "Some"
       THEN /\ thread' = [thread EXCEPT ![ti] = "None"]
            /\ stopping' = [stopping EXCEPT ![ti] = TRUE]
            /\ cpc' = "join"
            /\ ti' = ti
       ELSE /\ ti' = ti + 1
            /\ UNCHANGED <<thread, stopping, cpc>>
  /\ UNCHANGED <<shapeVars, pmVars, recordVars, missed, tasks, current_running_task, threadVars, asyncVars,
                 observerVars, historyVars, main>>

\* ThreadExecutor::terminate on slot ti: `thread.join().unwrap()` returns
TerminateJoin ==
  /\ kind = "parallel"
  /\ cpc = "join"
  /\ Joined(ti)
  /\ wpc' = [wpc EXCEPT ![ti] = IF @ = "exited" THEN "none" ELSE @]
  /\ stopping' = [stopping EXCEPT ![ti] = FALSE]
  /\ cpc' = "terminate"
  /\ ti' = ti + 1
  /\ UNCHANGED <<shapeVars, pmVars, recordVars, missed, tasks, thread, current_running_task, wtask, live,
                 asyncVars, observerVars, historyVars, main>>

\* ThreadExecutor::terminate on slot ti: `thread.join()` returns Err for a
\* thread that panicked and `.unwrap()` panics in the caller; the caller is
\* the main thread, so the process exits and its other threads end with it
TerminateJoinPanics ==
  /\ kind = "parallel"
  /\ cpc = "join"
  /\ wpc[ti] = "panicked"
  /\ cpc' = "panicked"
  /\ wpc' = [w \in Slots |-> IF wpc[w] \in {"none", "exited", "panicked"}
                                THEN wpc[w]
                                ELSE "killed"]
  /\ live' = [w \in Slots |-> 0]
  /\ UNCHANGED <<shapeVars, pmVars, recordVars, missed, tasks, executorVars, wtask, ti,
                 asyncVars, observerVars, historyVars, main>>

\* a faulty ThreadPool::terminate: clears the queue before it returns
TerminateReturn_clearing ==
  /\ kind = "parallel"
  /\ cpc = "terminate"
  /\ ti > max_threads
  /\ cpc' = "idle"
  /\ ti' = 0
  /\ phase' = "terminated"
  /\ parked' = {}
  /\ tasks' = clear(tasks)
  /\ UNCHANGED <<shapeVars, pmVars, recordVars, missed, executorVars, threadVars, asyncVars,
                 observerVars, submitted, cancelled, ranLast, liveAtCall, main>>

\* ThreadPool::terminate returns
TerminateReturn ==
  /\ kind = "parallel"
  /\ cpc = "terminate"
  /\ ti > max_threads
  /\ cpc' = "idle"
  /\ ti' = 0
  /\ phase' = "terminated"
  /\ parked' = {}
  /\ UNCHANGED <<shapeVars, pmVars, recordVars, missed, tasks, executorVars, threadVars, asyncVars,
                 observerVars, submitted, cancelled, ranLast, liveAtCall, main>>

(* ------------------ AsyncThreadPool (cooperative model) --------------- *)

\* AsyncThreadPool::new
AsyncThreadPoolNew ==
  /\ kind = "cooperative"
  /\ max_threads = 0
  /\ tasks = TaskPoolNew
  /\ ThreadExecutorNew(0)
  /\ cpc = "idle"
  /\ ti = 0
  /\ dpc = "idle"
  /\ jobs = << >>
  /\ executed = << >>
  /\ completed = << >>
  /\ log = << >>
  /\ submitted = {}
  /\ cancelled = {}
  /\ ranLast = FALSE
  /\ liveAtCall = FALSE
  /\ parked = {}
  /\ phase = "new"
  /\ calls = << >>
  /\ missed = {}
  /\ faulted = {}

\* AsyncThreadPool::add_task
AsyncAddTask(task) ==
  /\ kind = "cooperative"
  /\ task = NextTaskId
  /\ tasks' = enqueue(tasks, task)
  /\ submitted' = submitted \cup {task}
  /\ parked' = IF phase = "terminated" THEN parked \cup {task} ELSE parked
  /\ ranLast' = FALSE
  /\ liveAtCall' = liveAtCall
  /\ executed' = Created(executed, task)
  /\ completed' = Created(completed, task)
  /\ UNCHANGED <<shapeVars, pmVars, recordVars, missed, executorVars, threadVars, callerVars, asyncVars,
                 tracing, log, cancelled, phase, main>>

\* AsyncThreadPool::cancel_task
AsyncCancelTask(task) ==
  /\ kind = "cooperative"
  /\ tasks' = erase(tasks, task)
  /\ cancelled' = IF task \in Range(tasks) THEN cancelled \cup {task} ELSE cancelled
  /\ missed' = Missed(task)
  /\ UNCHANGED <<shapeVars, pmVars, recordVars, executorVars, threadVars, callerVars, asyncVars,
                 observerVars, submitted, ranLast, liveAtCall, parked, phase, main>>

\* AsyncThreadPool::execute is awaited
AsyncExecute ==
  /\ kind = "cooperative"
  /\ dpc = "idle"
  /\ dpc' = "is_empty"
  /\ ranLast' = TRUE
  /\ liveAtCall' = liveAtCall
  /\ phase' = "running"
  /\ UNCHANGED <<shapeVars, pmVars, recordVars, missed, tasks, executorVars, threadVars, callerVars, jobs,
                 observerVars, submitted, cancelled, parked, main>>

\* AsyncThreadPool::execute, `while !self.task_pool.is_empty().await`
DispatchIsEmpty ==
  /\ kind = "cooperative"
  /\ dpc = "is_empty"
  /\ dpc' = IF is_empty(tasks) THEN "idle" ELSE "dequeue"
  /\ UNCHANGED <<shapeVars, pmVars, recordVars, missed, tasks, executorVars, threadVars, callerVars, jobs,
                 observerVars, historyVars, main>>

\* AsyncThreadPool::execute, `if let Some(task) = dequeue().await { tokio::spawn(..) }`
DispatchDequeue ==
  /\ kind = "cooperative"
  /\ dpc = "dequeue"
  /\ tasks' = dequeue(tasks)[2]
  /\ IF dequeue(tasks)[1] # NoTask
       THEN /\ jobs' = Append(jobs, [task |-> dequeue(tasks)[1], pc |-> "on_execute"])
            /\ log' = Append(log, << >>)
            /\ dpc' = "is_empty"
       ELSE /\ jobs' = jobs
            /\ log' = log
            /\ dpc' = "yield"
  /\ UNCHANGED <<shapeVars, pmVars, recordVars, missed, executorVars, threadVars, callerVars,
                 executed, completed, tracing, historyVars, main>>

\* AsyncThreadPool::execute, `tokio::task::yield_now().await`
DispatchYield ==
  /\ kind = "cooperative"
  /\ dpc = "yield"
  /\ dpc' = "is_empty"
  /\ UNCHANGED <<shapeVars, pmVars, recordVars, missed, tasks, executorVars, threadVars, callerVars, jobs,
                 observerVars, historyVars, main>>

\* the spawned job, `task.on_execute()`
JobOnExecute(j) ==
  /\ kind = "cooperative"
  /\ jobs[j].pc = "on_execute"
  /\ Call("execute", j, jobs[j].task)
  /\ jobs' = [jobs EXCEPT ![j].pc = "on_complete"]
  /\ UNCHANGED <<shapeVars, pmVars, recordVars, missed, tasks, executorVars, threadVars, callerVars, dpc,
                 historyVars, main>>

\* the spawned job, `task.on_complete()`
JobOnComplete(j) ==
  /\ kind = "cooperative"
  /\ jobs[j].pc = "on_complete"
  /\ Call("complete", j, jobs[j].task)
  /\ jobs' = [jobs EXCEPT ![j].pc = "done"]
  /\ UNCHANGED <<shapeVars, pmVars, recordVars, missed, tasks, executorVars, threadVars, callerVars, dpc,
                 historyVars, main>>

\* a faulty AsyncThreadPool::terminate: returns only when every spawned job has ended
AsyncTerminate_joining ==
  /\ kind = "cooperative"
  /\ \A j \in 1 .. Len(jobs) : jobs[j].pc = "done"
  /\ tasks' = clear(tasks)
  /\ phase' = "terminated"
  /\ parked' = {}
  /\ UNCHANGED <<shapeVars, pmVars, recordVars, missed, executorVars, threadVars, callerVars, asyncVars,
                 observerVars, submitted, cancelled, ranLast, liveAtCall, main>>

\* AsyncThreadPool::terminate
AsyncTerminate ==
  /\ kind = "cooperative"
  /\ tasks' = clear(tasks)
  /\ phase' = "terminated"
  /\ parked' = {}
  /\ UNCHANGED <<shapeVars, pmVars, recordVars, missed, executorVars, threadVars, callerVars, asyncVars,
                 observerVars, submitted, cancelled, ranLast, liveAtCall, main>>

(* -------------------- the TaskPool, called directly ------------------- *)

\* calls with one more call: its name, the task passed (NoTask if none), the
\* task returned (NoTask for Option::None or no return value), the bool returned
Called(op, task, ret, empty) ==
  Append(calls, [op |-> op, task |-> task, ret |-> ret, empty |-> empty])

\* everything but the deque and the record of calls
poolVars == <<shapeVars, pmVars, auditing, missed, faulting, faulted, executorVars, threadVars, callerVars,
              asyncVars, observerVars, historyVars, main>>

\* TaskPool::enqueue(task), with any task reference, queued already or not
QueueEnqueue(task) ==
  /\ Len(calls) < MaxCalls
  /\ tasks' = enqueue(tasks, task)
  /\ calls' = Called("enqueue", task, NoTask, FALSE)
  /\ UNCHANGED poolVars

\* TaskPool::dequeue()
QueueDequeue ==
  /\ Len(calls) < MaxCalls
  /\ tasks' = dequeue(tasks)[2]
  /\ calls' = Called("dequeue", NoTask, dequeue(tasks)[1], FALSE)
  /\ UNCHANGED poolVars

\* TaskPool::erase(task)
QueueErase(task) ==
  /\ Len(calls) < MaxCalls
  /\ tasks' = erase(tasks, task)
  /\ calls' = Called("erase", task, NoTask, FALSE)
  /\ UNCHANGED poolVars

\* TaskPool::clear()
QueueClear ==
  /\ Len(calls) < MaxCalls
  /\ tasks' = clear(tasks)
  /\ calls' = Called("clear", NoTask, NoTask, FALSE)
  /\ UNCHANGED poolVars

\* TaskPool::is_empty()
QueueIsEmpty ==
  /\ Len(calls) < MaxCalls
  /\ tasks' = tasks
  /\ calls' = Called("is_empty", NoTask, NoTask, is_empty(tasks))
  /\ UNCHANGED poolVars

QueueNext ==
  \/ \E task \in TaskIds(MaxTasks) : QueueEnqueue(task)
  \/ QueueDequeue
  \/ \E task \in TaskIds(MaxTasks) : QueueErase(task)
  \/ QueueClear
  \/ QueueIsEmpty

(* ----------------------------- text (String) -------------------------- *)

\* the i-th character of s
CharAt(s, i) == SubSeq(s, i, i)

DigitChars == <<"0", "1", "2", "3", "4", "5", "6", "7", "8", "9">>

Digits == Range(DigitChars)

DigitValue(c) == (CHOOSE i \in 1 .. Len(DigitChars) : DigitChars[i] = c) - 1

\* char::is_whitespace, for the characters a text of the model can hold
Whitespace == {" ", "\t", "\n", "\r"}

RECURSIVE trim_start(_)
trim_start(s) ==
  IF s # "" /\ Head(s) \in Whitespace THEN trim_start(Tail(s)) ELSE s

RECURSIVE trim_end(_)
trim_end(s) ==
  IF s # "" /\ CharAt(s, Len(s)) \in Whitespace
    THEN trim_end(SubSeq(s, 1, Len(s) - 1))
    ELSE s

\* str::trim
trim(s) == trim_end(trim_start(s))

\* str::starts_with
starts_with(s, prefix) ==
  Len(prefix) <= Len(s) /\ SubSeq(s, 1, Len(prefix)) = prefix

\* str::ends_with
ends_with(s, suffix) ==
  Len(suffix) <= Len(s) /\ SubSeq(s, Len(s) - Len(suffix) + 1, Len(s)) = suffix

RECURSIVE trim_start_matches(_, _)
trim_start_matches(s, c) ==
  IF s # "" /\ Head(s) = c THEN trim_start_matches(Tail(s), c) ELSE s

RECURSIVE trim_end_matches(_, _)
trim_end_matches(s, c) ==
  IF s # "" /\ CharAt(s, Len(s)) = c
    THEN trim_end_matches(SubSeq(s, 1, Len(s) - 1), c)
    ELSE s

\* str::trim_matches(char): every leading and trailing c removed
trim_matches(s, c) == trim_end_matches(trim_start_matches(s, c), c)

\* the tokens of s from here on, `token` being the text since the latest separator
RECURSIVE split_from(_, _, _)
split_from(s, sep, token) ==
  IF s = ""
    THEN <<token>>
    ELSE IF starts_with(s, sep)
      THEN <<token>> \o split_from(SubSeq(s, Len(sep) + 1, Len(s)), sep, "")
      ELSE split_from(Tail(s), sep, token \o Head(s))

\* str::split(&str).collect(): the texts between the occurrences of sep, found
\* left to right without overlap
split(s, sep) == split_from(s, sep, "")

\* BufRead::read_line: the text up to and including the first newline, or all of it
RECURSIVE read_line(_)
read_line(s) ==
  IF s = "" THEN ""
  ELSE IF Head(s) = "\n" THEN "\n"
  ELSE Head(s) \o read_line(Tail(s))

I32Max == 2147483647

I32Min == -2147483647 - 1

AllDigits(s) == \A i \in 1 .. Len(s) : CharAt(s, i) \in Digits

\* the number written by the digits s, negated: accumulated below zero as
\* core::num does, `over` once it does not fit above i32::MIN
RECURSIVE NegMagnitude(_)
NegMagnitude(s) ==
  IF s = ""
    THEN [val |-> 0, over |-> FALSE]
    ELSE LET p == NegMagnitude(SubSeq(s, 1, Len(s) - 1))
             d == DigitValue(CharAt(s, Len(s)))
             over == p.over \/ p.val < (I32Min + d + 9) \div 10
         IN  [val |-> IF over THEN I32Min ELSE p.val * 10 - d, over |-> over]

\* str::parse::<i32>: an optional sign, then digits only, at least one; Err
\* (ok = FALSE) for anything else and for a number outside i32
parse_i32(s) ==
  LET signed == s # "" /\ Head(s) \in {"+", "-"}
      body == IF signed THEN Tail(s) ELSE s
      m == NegMagnitude(body)
      neg == signed /\ Head(s) = "-"
  IN  IF body = "" \/ ~AllDigits(body) \/ m.over \/ (~neg /\ m.val = I32Min)
        THEN [ok |-> FALSE, val |-> 0]
        ELSE [ok |-> TRUE, val |-> IF neg THEN m.val ELSE -m.val]

RECURSIVE NaturalText(_)
NaturalText(n) ==
  IF n < Len(DigitChars)
    THEN DigitChars[n + 1]
    ELSE NaturalText(n \div Len(DigitChars)) \o DigitChars[(n % Len(DigitChars)) + 1]

\* i32::to_string
i32_to_string(n) ==
  IF n = I32Min THEN "-2147483648"
  ELSE IF n < 0 THEN "-" \o NaturalText(-n)
  ELSE NaturalText(n)

\* Ord::clamp (it panics when min > max: the rules of the model have min <= max)
clamp(val, min, max) ==
  IF val < min THEN min ELSE IF val > max THEN max ELSE val

\* str::parse of a float: an optional sign, then digits with at most one '.',
\* at least one digit in all.  The decimal is kept as written: its sign, the
\* digits before the point and those after it.  (Exponents, "inf" and "nan"
\* are accepted by Rust too; no text of the model has them.)
parse_float(s) ==
  LET signed == s # "" /\ Head(s) \in {"+", "-"}
      body == IF signed THEN Tail(s) ELSE s
      dots == {i \in 1 .. Len(body) : CharAt(body, i) = "."}
      dot == IF dots = {} THEN Len(body) + 1 ELSE CHOOSE i \in dots : TRUE
      int == SubSeq(body, 1, dot - 1)
      frac == SubSeq(body, dot + 1, Len(body))
  IN  IF Cardinality(dots) <= 1 /\ int \o frac # "" /\ AllDigits(int) /\ AllDigits(frac)
        THEN [ok |-> TRUE, neg |-> signed /\ Head(s) = "-", int |-> int, frac |-> frac]
        ELSE [ok |-> FALSE, neg |-> FALSE, int |-> "", frac |-> ""]

\* `f as i32` of a parsed f64: the fraction is dropped and the result
\* saturates at the ends of i32 (the decimals of the model are short enough to
\* be read exactly)
float_as_i32(f) ==
  LET m == NegMagnitude(f.int)
  IN  IF f.neg THEN m.val
      ELSE IF m.over \/ m.val = I32Min THEN I32Max
      ELSE -m.val

RECURSIVE PowerOfTen(_)
PowerOfTen(n) == IF n = 0 THEN 1 ELSE Len(DigitChars) * PowerOfTen(n - 1)

\* a decimal compared with a whole number: -1, 0 or 1 as it is below, equal
\* or above (both scaled by the number of digits after the point)
CompareWithWhole(f, whole) ==
  LET scaled == -NegMagnitude(f.int \o f.frac).val
      value == IF f.neg THEN -scaled ELSE scaled
      bound == whole * PowerOfTen(Len(f.frac))
  IN  IF value < bound THEN -1 ELSE IF value > bound THEN 1 ELSE 0

\* f32::to_string of a decimal: the shortest text that reads back as the same
\* float, which for the short decimals of the model is the decimal without
\* leading and trailing zeros ("1.0" gives "1", "-0" stays "-0")
float_to_string(f) ==
  LET int == trim_start_matches(f.int, "0")
      frac == trim_end_matches(f.frac, "0")
  IN  (IF f.neg THEN "-" ELSE "")
        \o (IF int = "" THEN "0" ELSE int)
        \o (IF frac = "" THEN "" ELSE "." \o frac)

(* ---------------------- ParameterManager (datamanager) ---------------- *)

\* a HashMap without entries
EmptyMap == [k \in {} |-> ""]

\* HashMap::insert
insert(map, key, value) ==
  [k \in DOMAIN map \cup {key} |-> IF k = key THEN value ELSE map[k]]

\* no call made yet on the ParameterManager
NoCall ==
  [op |-> "none", key |-> "", value |-> "", stream |-> "", override_existing |-> FALSE,
   ret |-> FALSE]

\* ParameterManager::new, as a value: every map empty, ids from 0
NewManager ==
  [params |-> EmptyMap, param_rules |-> EmptyMap, listeners |-> EmptyMap,
   wild_card_listeners |-> EmptyMap, listener_id_reverse |-> EmptyMap, listener_id |-> 0]

\* ParameterManager::new: every map empty, ids from 0; nothing called yet,
\* and get_manager not called yet
ParameterManagerNew ==
  /\ params = EmptyMap
  /\ param_rules = EmptyMap
  /\ listeners = EmptyMap
  /\ wild_card_listeners = EmptyMap
  /\ listener_id_reverse = EmptyMap
  /\ listener_id = 0
  /\ pmcall = NoCall
  /\ pmcount = 0
  /\ notified = EmptyMap
  /\ instance = << >>
  /\ heap = << >>
  /\ handles = << >>
  /\ guard = 0

\* a ParamRule; range_min and range_max are f32 in the code and whole numbers
\* here, so that `range_min as i32` is range_min
ParamRule(param_type, range, range_min, range_max, enum_vals) ==
  [param_type |-> param_type, range |-> range, range_min |-> range_min,
   range_max |-> range_max, enum_vals |-> enum_vals]

\* what filter_value_with_rule hands back: its bool and the text left in *value
Filtered(ok, value) == [ok |-> ok, value |-> value]

\* the Ranged/TypeFloat arm: `val.clamp(rule.range_min, rule.range_max).to_string()`
clamp_float(f, rule) ==
  IF CompareWithWhole(f, rule.range_min) < 0 THEN i32_to_string(rule.range_min)
  ELSE IF CompareWithWhole(f, rule.range_max) > 0 THEN i32_to_string(rule.range_max)
  ELSE float_to_string(f)

\* a faulty filter_value_with_rule: a value outside the enum set passes
enum_rejects_nothing(rule, value) == FALSE

\* the RangeEnum arm of filter_value_with_rule: `!rule.enum_vals.contains(value)`

enum_rejects(rule, value) == value \notin rule.enum_vals

\* ParameterManager::filter_value_with_rule, with the rules a caller has set
filter_value_with_rule(rules, key, value) ==
  IF key \notin DOMAIN rules
    THEN Filtered(TRUE, value)
    ELSE LET rule == rules[key]
         IN  CASE rule.range = "RangeAny" -> Filtered(TRUE, value)
               [] rule.range = "Ranged" /\ rule.param_type = "TypeInt" ->
                    LET val == parse_i32(value)
                    IN  IF val.ok
                          THEN Filtered(TRUE, i32_to_string(
                                 clamp(val.val, rule.range_min, rule.range_max)))
                          ELSE Filtered(TRUE, value)
               [] rule.range = "Ranged" /\ rule.param_type = "TypeFloat" ->
                    LET val == parse_float(value)
                    IN  IF val.ok
                          THEN Filtered(TRUE, clamp_float(val, rule))
                          ELSE Filtered(TRUE, value)
               [] rule.range = "Ranged" /\ rule.param_type = "TypeBool" ->
                    Filtered(value \in {"true", "false"}, value)
               [] rule.range = "Ranged" /\ rule.param_type = "TypeString" ->
                    Filtered(TRUE, value)
               [] rule.range = "RangeEnum" ->
                    Filtered(~enum_rejects(rule, value), value)

\* the record of callback calls with one more: the callback of listener id,
\* called with (key, value)
Invoked(notes, id, key, value) ==
  LET note == [id |-> id, key |-> key, value |-> value]
  IN  IF note \in DOMAIN notes
        THEN [notes EXCEPT ![note] = @ + 1]
        ELSE notes @@ (note :> 1)

\* ParameterManager::execute_notify: each listener of the Vec is called once
RECURSIVE execute_notify(_, _, _, _)
execute_notify(notes, key, value, ls) ==
  IF ls = << >>
    THEN notes
    ELSE execute_notify(Invoked(notes, Head(ls), key, value), key, value, Tail(ls))

\* set_parameter's loop over wild_card_listeners (a HashMap: in any order; the
\* record of calls does not keep the order)
RECURSIVE notify_wild_cards(_, _, _, _, _)
notify_wild_cards(notes, wild, key, value, prefixes) ==
  IF prefixes = {}
    THEN notes
    ELSE LET a_key == CHOOSE a \in prefixes : TRUE
             after == IF starts_with(key, a_key)
                        THEN execute_notify(notes, key, value, wild[a_key])
                        ELSE notes
         IN  notify_wild_cards(after, wild, key, value, prefixes \ {a_key})

\* a faulty set_parameter: without the read-only check
is_read_only_never(ps, key) == FALSE

\* set_parameter's early return: `contains_key(key)` and `key.starts_with("ro.")`

is_read_only(ps, key) == key \in DOMAIN ps /\ starts_with(key, "ro.")

\* a faulty set_parameter: notifies whether or not the value differs
b_changed_always(ps, key, value) == TRUE

\* set_parameter's b_changed: true, or `self.params[key] != value` for a key present

b_changed(ps, key, value) == key \notin DOMAIN ps \/ ps[key] # value

\* ParameterManager::set_parameter(key, v) on a manager m = [params, notified]
\* (the rules and the listeners are those of the state); v is the text
\* `value.to_string()` gives
set_parameter(m, key, v) ==
  LET f == filter_value_with_rule(param_rules, key, trim(v))
  IN  IF ~f.ok \/ is_read_only(m.params, key)
        THEN m
        ELSE [params |-> insert(m.params, key, f.value),
              notified |->
                IF b_changed(m.params, key, f.value)
                  THEN LET wild == notify_wild_cards(m.notified, wild_card_listeners, key,
                                                     f.value, DOMAIN wild_card_listeners)
                       IN  IF key \in DOMAIN listeners
                             THEN execute_notify(wild, key, f.value, listeners[key])
                             ELSE wild
                  ELSE m.notified]

\* ParameterManager::get_parameter_int
get_parameter_int(key, default_value) ==
  IF key \in DOMAIN params /\ parse_float(params[key]).ok
    THEN float_as_i32(parse_float(params[key]))
    ELSE default_value

\* a faulty restore_from_stream: sets the key whether or not it is present
may_restore_always(ps, key, override_existing) == TRUE

\* restore_from_stream: `override_existing || !self.params.contains_key(&key)`

may_restore(ps, key, override_existing) == override_existing \/ key \notin DOMAIN ps

\* ParameterManager::restore_from_stream on a manager m = [params, notified],
\* reader being the text not read yet and result the result so far
RECURSIVE restore_from_stream(_, _, _, _)
restore_from_stream(m, reader, override_existing, result) ==
  LET line == read_line(reader)
      rest == SubSeq(reader, Len(line) + 1, Len(reader))
      tokens == split(trim(line), "\":\"")
  IN  IF line = ""
        THEN [params |-> m.params, notified |-> m.notified, result |-> result]
        ELSE IF Len(tokens) = 2
          THEN LET key == trim_matches(tokens[1], "\"")
                   value == trim_matches(tokens[2], "\"")
               IN  restore_from_stream(
                     IF may_restore(m.params, key, override_existing)
                       THEN set_parameter(m, key, value)
                       ELSE m,
                     rest, override_existing, TRUE)
          ELSE restore_from_stream(m, rest, override_existing, result)

\* the keys, values, rules, callback keys and streams a caller passes
Keys == {"ro.a", "a", "ab"}

Values == {"5", "11", "11.5", " 5 ", "low"}

IntRule == ParamRule("TypeInt", "Ranged", 1, 10, {})

FloatRule == ParamRule("TypeFloat", "Ranged", -1, 1, {})

BoolRule == ParamRule("TypeBool", "Ranged", -1, 0, {})

EnumRule == ParamRule("TypeString", "RangeEnum", 0, 0, {"low", "mid"})

Rules == {IntRule, FloatRule, BoolRule, EnumRule}

CallbackKeys == {"a", "a*", "ro.a", "*"}

Lines == {"\"a\":\"5\"", "\"ro.a\":\"11\"", "\"a\" \"5\"", "a\":\"low"}

\* the texts of at most n lines, each ended by a newline
RECURSIVE StreamsOf(_)
StreamsOf(n) ==
  IF n = 0
    THEN {""}
    ELSE LET shorter == StreamsOf(n - 1)
         IN  shorter \cup {s \o l \o "\n" : s \in shorter, l \in Lines}

Streams == StreamsOf(MaxLines)

\* the pool, which no call on the ParameterManager touches
engineVars == <<shapeVars, tasks, executorVars, threadVars, callerVars, asyncVars,
                historyVars, observerVars, recordVars, missed, main>>

\* pmcall for one more call
Asked(op, key, value, stream, override_existing, ret) ==
  [op |-> op, key |-> key, value |-> value, stream |-> stream,
   override_existing |-> override_existing, ret |-> ret]

\* `manager.set_parameter(key, v)`
PmSetParameter(key, v) ==
  /\ pmcount < MaxParamCalls
  /\ LET m == set_parameter([params |-> params, notified |-> EmptyMap], key, v)
     IN  /\ params' = m.params
         /\ notified' = m.notified
  /\ pmcall' = Asked("set_parameter", key, v, "", FALSE, FALSE)
  /\ pmcount' = pmcount + 1
  /\ UNCHANGED <<param_rules, listeners, wild_card_listeners, listener_id_reverse,
                 listener_id, engineVars, registryVars>>

\* `manager.register_callback(key, callback)`
PmRegisterCallback(key) ==
  /\ pmcount < MaxParamCalls
  /\ listener_id' = listener_id + 1
  /\ IF ends_with(key, "*")
       THEN LET _key == SubSeq(key, 1, Len(key) - 1)
            IN  /\ wild_card_listeners' =
                     insert(wild_card_listeners, _key,
                            Append(IF _key \in DOMAIN wild_card_listeners
                                     THEN wild_card_listeners[_key]
                                     ELSE << >>,
                                   listener_id))
                /\ UNCHANGED listeners
       ELSE /\ listeners' =
                 insert(listeners, key,
                        Append(IF key \in DOMAIN listeners THEN listeners[key] ELSE << >>,
                               listener_id))
            /\ UNCHANGED wild_card_listeners
  /\ listener_id_reverse' = insert(listener_id_reverse, listener_id, key)
  /\ pmcall' = Asked("register_callback", key, "", "", FALSE, FALSE)
  /\ pmcount' = pmcount + 1
  /\ notified' = EmptyMap
  /\ UNCHANGED <<params, param_rules, engineVars, registryVars>>

\* `manager.set_parameter_rule(key, rule)`
PmSetParameterRule(key, rule) ==
  /\ pmcount < MaxParamCalls
  /\ param_rules' = insert(param_rules, key, rule)
  /\ pmcall' = Asked("set_parameter_rule", key, "", "", FALSE, FALSE)
  /\ pmcount' = pmcount + 1
  /\ notified' = EmptyMap
  /\ UNCHANGED <<params, listeners, wild_card_listeners, listener_id_reverse,
                 listener_id, engineVars, registryVars>>

\* `manager.restore_from_stream(&mut reader, override_existing)`
PmRestoreFromStream(stream, override_existing) ==
  /\ pmcount < MaxParamCalls
  /\ LET m == restore_from_stream([params |-> params, notified |-> EmptyMap], stream,
                                  override_existing, FALSE)
     IN  /\ params' = m.params
         /\ notified' = m.notified
         /\ pmcall' = Asked("restore_from_stream", "", "", stream, override_existing,
                            m.result)
  /\ pmcount' = pmcount + 1
  /\ UNCHANGED <<param_rules, listeners, wild_card_listeners, listener_id_reverse,
                 listener_id, engineVars, registryVars>>

\* the ParameterManager the caller's MutexGuard gives access to, as a value
ManagerOf ==
  [params |-> params, param_rules |-> param_rules, listeners |-> listeners,
   wild_card_listeners |-> wild_card_listeners,
   listener_id_reverse |-> listener_id_reverse, listener_id |-> listener_id]

\* the ParameterManager behind handle h: the one the caller holds locked, or
\* the one in heap
Behind(h) ==
  IF guard # 0 /\ handles[h] = handles[guard] THEN ManagerOf ELSE heap[handles[h]]

\* a faulty get_manager: the manager stays in INSTANCE and every handle points
\* to that one manager
PmGetManager_shared ==
  /\ Len(handles) < MaxHandles
  /\ LET created == IF instance = << >> THEN NewManager ELSE instance[1]
     IN  /\ instance' = <<created>>
         /\ heap' = IF heap = << >> THEN <<created>> ELSE heap
         /\ handles' = Append(handles, 1)
  /\ UNCHANGED <<managerVars, pmcall, pmcount, notified, guard, engineVars>>

\* ParameterManager::get_manager: `if instance.is_none() { *instance =
\* Some(new()) }`, then `Arc::new(Mutex::new(instance.take().unwrap()))`: the
\* manager is moved out of INSTANCE, which is left None, into a new Arc
PmGetManager ==
  /\ Len(handles) < MaxHandles
  /\ LET created == IF instance = << >> THEN NewManager ELSE instance[1]
     IN  /\ instance' = << >>
         /\ heap' = Append(heap, created)
         /\ handles' = Append(handles, Len(heap) + 1)
  /\ UNCHANGED <<managerVars, pmcall, pmcount, notified, guard, engineVars>>

\* `binding.lock().unwrap()` on handle h: the guard held so far is dropped,
\* which leaves its manager as the caller's calls made it, and the caller's
\* calls now reach the manager behind h
PmLock(h) ==
  /\ h \in 1 .. Len(handles)
  /\ h # guard
  /\ LET dropped == IF guard = 0 THEN heap ELSE [heap EXCEPT ![handles[guard]] = ManagerOf]
         m == dropped[handles[h]]
     IN  /\ heap' = dropped
         /\ params' = m.params
         /\ param_rules' = m.param_rules
         /\ listeners' = m.listeners
         /\ wild_card_listeners' = m.wild_card_listeners
         /\ listener_id_reverse' = m.listener_id_reverse
         /\ listener_id' = m.listener_id
  /\ guard' = h
  /\ UNCHANGED <<instance, handles, pmcall, pmcount, notified, engineVars>>

\* a call made through the handle the caller holds locked
PmThroughHandle ==
  /\ guard # 0
  /\ \/ \E key \in Keys, v \in Values : PmSetParameter(key, v)
     \/ \E key \in CallbackKeys : PmRegisterCallback(key)

\* what a caller of get_manager does next
ManagerNext ==
  \/ PmGetManager
  \/ \E h \in 1 .. MaxHandles : PmLock(h)
  \/ PmThroughHandle

ParamNext ==
  \/ \E key \in Keys, v \in Values : PmSetParameter(key, v)
  \/ \E key \in CallbackKeys : PmRegisterCallback(key)
  \/ \E key \in Keys, rule \in Rules : PmSetParameterRule(key, rule)
  \/ \E stream \in Streams, override_existing \in BOOLEAN :
       PmRestoreFromStream(stream, override_existing)

(* ------------------------------ a free caller ------------------------- *)

AddTask(task) == ThreadPoolAddTask(task) /\ UNCHANGED main

CancelTask(task) == ThreadPoolCancelTask(task) /\ UNCHANGED main

Execute == ThreadPoolExecute /\ UNCHANGED main

Terminate == ThreadPoolTerminate /\ UNCHANGED main

Init ==
  /\ \/ \E n \in 1 .. MaxThreads : ThreadPoolNew(n)
     \/ AsyncThreadPoolNew
  /\ tracing = FALSE
  /\ auditing = FALSE
  /\ faulting = FALSE
  /\ main = << >>
  /\ ParameterManagerNew

TraceInit ==
  /\ \/ \E n \in 1 .. MaxThreads : ThreadPoolNew(n)
     \/ AsyncThreadPoolNew
  /\ tracing = TRUE
  /\ auditing = FALSE
  /\ faulting = FALSE
  /\ main = << >>
  /\ ParameterManagerNew

WorkerStep ==
  \E w \in Slots :
    \/ WorkerIsEmpty(w)
    \/ WorkerDequeue(w)
    \/ WorkerOnExecute(w)
    \/ WorkerOnComplete(w)
    \/ WorkerYield(w)

TerminateStep ==
  \/ TerminateThread
  \/ TerminateJoin
  \/ TerminateReturn

DispatchStep ==
  \/ DispatchIsEmpty
  \/ DispatchDequeue
  \/ DispatchYield

JobStep ==
  \E j \in 1 .. Len(jobs) :
    \/ JobOnExecute(j)
    \/ JobOnComplete(j)

Next ==
  \/ \E task \in TaskIds(MaxTasks) : AddTask(task)
  \/ \E task \in TaskIds(MaxTasks) : CancelTask(task)
  \/ Execute
  \/ Terminate
  \/ TerminateStep
  \/ WorkerStep
  \/ \E task \in TaskIds(MaxTasks) : AsyncAddTask(task)
  \/ \E task \in TaskIds(MaxTasks) : AsyncCancelTask(task)
  \/ AsyncExecute
  \/ AsyncTerminate
  \/ DispatchStep
  \/ JobStep

Spec == Init /\ [][Next]_vars

\* what the thread of slot w does next
WorkerRuns(w) ==
  /\ w \in Slots
  /\ \/ WorkerIsEmpty(w)
     \/ WorkerDequeue(w)
     \/ WorkerOnExecute(w)
     \/ WorkerOnComplete(w)
     \/ WorkerYield(w)

\* what the j-th spawned job does next
JobRuns(j) ==
  /\ j \in 1 .. Len(jobs)
  /\ \/ JobOnExecute(j)
     \/ JobOnComplete(j)

\* every thread of n slots and every spawned job is scheduled again and again,
\* and so are the dispatcher and a caller that is inside terminate()
Fairness(n) ==
  /\ \A w \in 1 .. n : WF_vars(WorkerRuns(w))
  /\ \A j \in 1 .. MaxTasks : WF_vars(JobRuns(j))
  /\ WF_vars(TerminateStep)
  /\ WF_vars(DispatchStep)

FairSpec == Spec /\ Fairness(MaxThreads)

\* the same pool, with every call of a task written to log
TraceSpec == TraceInit /\ [][Next]_vars

TraceFairSpec == TraceSpec /\ Fairness(MaxThreads)

\* the same pool, with every cancel_task that finds nothing queued written to missed
AuditInit ==
  /\ \/ \E n \in 1 .. MaxThreads : ThreadPoolNew(n)
     \/ AsyncThreadPoolNew
  /\ tracing = FALSE
  /\ auditing = TRUE
  /\ faulting = FALSE
  /\ main = << >>
  /\ ParameterManagerNew

AuditSpec == AuditInit /\ [][Next]_vars

AuditFairSpec == AuditSpec /\ Fairness(MaxThreads)

\* the same pool, with tasks whose on_execute or on_complete may panic
FaultInit ==
  /\ \/ \E n \in 1 .. MaxThreads : ThreadPoolNew(n)
     \/ AsyncThreadPoolNew
  /\ tracing = FALSE
  /\ auditing = FALSE
  /\ faulting = TRUE
  /\ main = << >>
  /\ ParameterManagerNew

FaultNext ==
  \/ Next
  \/ \E w \in Slots : WorkerPanic(w)
  \/ TerminateJoinPanics

FaultSpec == FaultInit /\ [][FaultNext]_vars

FaultFairSpec == FaultSpec /\ Fairness(MaxThreads) /\ WF_vars(TerminateJoinPanics)

\* a fresh pool whose TaskPool is public (taskmanager_async)
QueueInit ==
  /\ AsyncThreadPoolNew
  /\ tracing = FALSE
  /\ auditing = FALSE
  /\ faulting = FALSE
  /\ main = << >>
  /\ ParameterManagerNew

\* the deque of a fresh pool under any sequence of direct calls
QueueSpec == QueueInit /\ [][QueueNext]_vars

\* a fresh ParameterManager (beside a fresh pool that nothing is asked of)
ParamInit ==
  /\ AsyncThreadPoolNew
  /\ tracing = FALSE
  /\ auditing = FALSE
  /\ faulting = FALSE
  /\ main = << >>
  /\ ParameterManagerNew

\* the ParameterManager under any sequence of calls
ParamSpec == ParamInit /\ [][ParamNext]_vars

\* the managers handed out by get_manager, under any sequence of get_manager,
\* lock, set_parameter and register_callback
ManagerSpec == ParamInit /\ [][ManagerNext]_vars

(* ------------------- the caller of taskmanager's main.rs -------------- *)

\* main(), from `ThreadPool::new(4)` to the end of its first sleep: what it
\* calls, in order
MainProgram ==
  [i \in 1 .. DemoTasks |-> <<"add_task", i - 1>>]
    \o << <<"execute", NoTask>>, <<"sleep", NoTask>> >>

MainAt(what) == main # << >> /\ Head(main)[1] = what

\* `pool.add_task(Arc::new(MyTask::new(i)))`
MainAddTask ==
  /\ MainAt("add_task")
  /\ ThreadPoolAddTask(Head(main)[2])
  /\ main' = Tail(main)

\* `pool.execute()`
MainExecute ==
  /\ MainAt("execute")
  /\ ThreadPoolExecute
  /\ main' = Tail(main)

\* `thread::sleep(..)` returns: no thread is waited for
MainSleep ==
  /\ MainAt("sleep")
  /\ cpc = "idle"
  /\ main' = Tail(main)
  /\ UNCHANGED <<shapeVars, pmVars, recordVars, missed, tasks, executorVars, threadVars, callerVars, asyncVars,
                 observerVars, historyVars>>

MainInit ==
  /\ ThreadPoolNew(DemoThreads)
  /\ tracing = FALSE
  /\ auditing = FALSE
  /\ faulting = FALSE
  /\ main = MainProgram
  /\ ParameterManagerNew

MainNext ==
  \/ MainAddTask
  \/ MainExecute
  \/ MainSleep
  \/ WorkerStep

MainSpec == MainInit /\ [][MainNext]_vars

\* the main thread and the worker threads are all scheduled
MainFairSpec ==
  MainSpec /\ Fairness(DemoThreads)
           /\ WF_vars(MainAddTask \/ MainExecute \/ MainSleep)

\* main(), all of it: the first batch, execute(), a sleep that outlasts the
\* batch, the further tasks, a second sleep and terminate()
DemoProgram ==
  [i \in 1 .. DemoTasks |-> <<"add_task", i - 1>>]
    \o << <<"execute", NoTask>>, <<"sleep_past_batch", NoTask>> >>
    \o [i \in 1 .. DemoMoreTasks |-> <<"add_task", DemoTasks + i - 1>>]
    \o << <<"sleep", NoTask>>, <<"terminate", NoTask>> >>

\* the first batch has drained: nothing queued, every task of it completed
BatchDrained ==
  /\ is_empty(tasks)
  /\ \A task \in TaskIds(DemoTasks) : CompleteCount(task) = 1

\* the first `thread::sleep(Duration::from_secs(2))` returns; the tasks only
\* print, so the batch has drained long before
DemoSleepPastBatch ==
  /\ MainAt("sleep_past_batch")
  /\ cpc = "idle"
  /\ BatchDrained
  /\ main' = Tail(main)
  /\ UNCHANGED <<shapeVars, pmVars, recordVars, missed, tasks, executorVars, threadVars, callerVars, asyncVars,
                 observerVars, historyVars>>

\* `pool.terminate()` is entered
DemoTerminate ==
  /\ MainAt("terminate")
  /\ ThreadPoolTerminate
  /\ main' = Tail(main)

DemoInit ==
  /\ ThreadPoolNew(DemoThreads)
  /\ tracing = FALSE
  /\ auditing = FALSE
  /\ faulting = FALSE
  /\ main = DemoProgram
  /\ ParameterManagerNew

DemoNext ==
  \/ MainAddTask
  \/ MainExecute
  \/ DemoSleepPastBatch
  \/ MainSleep
  \/ DemoTerminate
  \/ TerminateStep
  \/ WorkerStep

\* main() of taskmanager's main.rs, from start to end
DemoSpec == DemoInit /\ [][DemoNext]_vars

(* ============================== properties ============================ *)

\* no thread spawned by the pool is running and the caller is in no call
Quiescent ==
  /\ cpc = "idle"
  /\ \A w \in Slots : wpc[w] \in {"none", "exited"}

\* the execution contexts that were handed task by dequeue and still hold it
Holders(task) == {w \in Slots : wtask[w] = task}

\* the spawned jobs that were handed task by dequeue
JobsOf(task) == {j \in 1 .. Len(jobs) : jobs[j].task = task}

\* C1 (as claimed): on the parallel pool, whatever the order of add_task and
\* execute() calls, a task that was not cancelled has on_execute and then
\* on_complete run exactly once: once execute() has been called after the
\* latest add_task and every worker thread has stopped, each such task has
\* been executed once and completed once.
C1_ExactlyOnceAfterRun ==
  (kind = "parallel" /\ ranLast /\ Quiescent) =>
    \A task \in submitted \ cancelled :
      ExecCount(task) = 1 /\ CompleteCount(task) = 1

\* C2: a task enqueued once is handed by dequeue to at most one execution
\* context, whatever the interleaving of is_empty and dequeue of the racing
\* workers, and its on_execute runs at most once.
C2_DequeuedAtMostOnce ==
  \A task \in submitted :
    /\ ExecCount(task) <= 1
    /\ CompleteCount(task) <= 1
    /\ Cardinality(Holders(task)) + Cardinality(JobsOf(task))
         + (IF kind = "parallel" THEN CompleteCount(task) ELSE 0)
         + (IF task \in Range(tasks) THEN 1 ELSE 0) <= 1

\* C2 witness: two workers raced for the last queued task; one dequeued and
\* ran it, the other found the queue empty after having seen it non-empty.
C2_Witness ==
  \E w1, w2 \in Slots :
    /\ wpc[w1] = "yield"
    /\ wpc[w2] = "on_complete"
    /\ ExecCount(wtask[w2]) = 1

\* C3: a task cancelled while it was still queued (no worker and no dispatcher
\* had dequeued it) never has on_execute or on_complete run afterwards, in
\* either model; it has left the queue and no execution context holds it.
C3_CancelledNeverRuns ==
  \A task \in cancelled :
    /\ ExecCount(task) = 0
    /\ CompleteCount(task) = 0
    /\ Holders(task) = {}
    /\ JobsOf(task) = {}
    /\ task \notin Range(tasks)

\* C3 witness: a queued task was cancelled and the workers went on past it: a
\* task submitted after it has run to completion.
C3_Witness ==
  \E task \in cancelled :
    \E later \in submitted : later > task /\ CompleteCount(later) = 1

\* the tasks of set S in the order they were submitted (ids grow with submission)
RECURSIVE InSubmitOrder(_)
InSubmitOrder(S) ==
  IF S = {} THEN << >>
  ELSE LET first == CHOOSE t \in S : \A u \in S : t <= u
       IN <<first>> \o InSubmitOrder(S \ {first})

\* execute(t1), complete(t1), execute(t2), complete(t2), ... for the tasks of order
RunTrace(order) ==
  [i \in 1 .. 2 * Len(order) |->
     IF i % 2 = 1 THEN Event("execute", order[(i + 1) \div 2])
                  ELSE Event("complete", order[i \div 2])]

IsPrefix(a, b) == Len(a) <= Len(b) /\ \A i \in 1 .. Len(a) : a[i] = b[i]

\* C4: in a parallel pool with exactly one worker the trace of calls is
\* execute(t0), complete(t0), execute(t1), complete(t1), ... in submission
\* order (skipping tasks cancelled while queued): at every moment the trace is
\* a prefix of that sequence, so a later task's on_execute never begins before
\* an earlier task's on_complete has returned, and once the queue is empty and
\* the worker has stopped the trace is the whole sequence.
C4_SingleWorkerFifoTrace ==
  (kind = "parallel" /\ max_threads = 1) =>
    /\ IsPrefix(log[1], RunTrace(InSubmitOrder(submitted \ cancelled)))
    /\ (Quiescent /\ tasks = << >>) =>
         log[1] = RunTrace(InSubmitOrder(submitted \ cancelled))

\* C4 witness: one worker, tasks 0, 1, 2 submitted before execute(), and
\* the trace is executing 0, completed 0, ..., completed 2.
C4_Witness ==
  /\ kind = "parallel"
  /\ max_threads = 1
  /\ ranLast
  /\ cancelled = {}
  /\ Quiescent
  /\ log[1] = << <<"execute", 0>>, <<"complete", 0>>, <<"execute", 1>>,
                 <<"complete", 1>>, <<"execute", 2>>, <<"complete", 2>> >>

\* the first batch of main(): the tasks added before `pool.execute()`
FirstBatch == TaskIds(DemoTasks)

\* C5: in the pool of 4 workers of main(), after the 5 tasks are added and
\* execute() is called, with the threads scheduled fairly every one of the 5
\* tasks eventually reports completion (none is skipped), and none is executed
\* or completed twice.
C5_AllFiveCompleteOnce ==
  /\ <>(\A task \in FirstBatch : ExecCount(task) = 1 /\ CompleteCount(task) = 1)
  /\ [](\A task \in submitted : ExecCount(task) <= 1 /\ CompleteCount(task) <= 1)

\* C5 witness: the 4 workers of main() were started, all 5 tasks have
\* completed once and every worker thread has left its loop.
C5_Witness ==
  /\ max_threads = DemoThreads
  /\ \A task \in FirstBatch : CompleteCount(task) = 1
  /\ \A w \in Slots : wpc[w] = "exited"

\* C6: when ThreadPool::terminate() has returned (and until execute() is
\* called again) no worker thread of the pool is alive or executing a task:
\* every slot's thread has ended and been joined, and its handle is gone.
C6_TerminateJoinsEveryWorker ==
  (kind = "parallel" /\ phase = "terminated") =>
    \A w \in Slots :
      /\ live[w] = 0
      /\ wpc[w] = "none"
      /\ wtask[w] = NoTask
      /\ thread[w] = "None"
      /\ stopping[w] = FALSE

\* C6 witness: terminate() has returned on a pool of two workers that had
\* been started and had run a task.
C6_Witness ==
  /\ kind = "parallel"
  /\ phase = "terminated"
  /\ cpc = "idle"
  /\ max_threads = 2
  /\ \E task \in submitted : CompleteCount(task) = 1

\* C7: a task submitted after terminate() returned stays in the queue,
\* unexecuted, for as long as execute() is not called again (unless it is
\* cancelled there), and once execute() has been called it is executed and
\* completed (unless it is cancelled first).
C7_SubmitAfterTerminate ==
  /\ []((kind = "parallel" /\ phase = "terminated") =>
          \A task \in parked :
            /\ ExecCount(task) = 0
            /\ Holders(task) = {}
            /\ task \in Range(tasks) \/ task \in cancelled)
  /\ \A task \in TaskIds(MaxTasks) :
       (kind = "parallel" /\ phase = "running" /\ task \in parked)
         ~> (CompleteCount(task) = 1 \/ task \in cancelled)

\* C7 witness: a task submitted after terminate() has been executed and
\* completed after the next execute().
C7_Witness ==
  /\ kind = "parallel"
  /\ phase = "running"
  /\ \E task \in parked : ExecCount(task) = 1 /\ CompleteCount(task) = 1

\* C8 (as claimed): execute() on the parallel pool leaves every worker slot
\* with a running execution context, whether the slot was never started or
\* its previous thread has ended.
C8_RunStartsEveryStoppedWorker ==
  [][ThreadPoolExecute => \A w \in Slots : live'[w] = 1]_vars

\* C9: each worker slot has at most one live execution context at any time,
\* whatever the sequence of execute(), add_task, cancel_task and terminate().
C9_OneContextPerSlot ==
  \A w \in Slots : live[w] <= 1

\* C9 witness: execute() was called again while slot w's handle was still
\* held (its thread had ended when the queue was empty, a task was added
\* after that, and execute() returned after the add), and spawned nothing.
C9_Witness ==
  \E w \in Slots :
    /\ thread[w] = "Some"
    /\ wpc[w] = "exited"
    /\ live[w] = 0
    /\ ranLast
    /\ tasks # << >>

\* a context's trace in which every on_execute is followed at once by the
\* on_complete of the same task, and every on_complete follows such an on_execute
PairedTrace(trace) ==
  \A i \in 1 .. Len(trace) :
    IF i % 2 = 1 THEN trace[i][1] = "execute"
                 ELSE trace[i] = Event("complete", trace[i - 1][2])

\* the trace of a context that was handed task, according to where it is
TraceAt(pc, trace, task) ==
  CASE pc = "on_execute" -> Len(trace) % 2 = 0 /\ ExecCount(task) = 0
    [] pc = "on_complete" -> Len(trace) % 2 = 1 /\ trace[Len(trace)] = Event("execute", task)
    [] OTHER -> Len(trace) % 2 = 0

\* C10: for every task handed to an execution context by dequeue, on_complete
\* runs exactly once, right after that task's on_execute has returned and in
\* the same context, with no other call of that context in between, and never
\* before the task's on_execute has returned.
C10_CompleteFollowsExecute ==
  /\ [](/\ \A c \in 1 .. Len(log) : PairedTrace(log[c])
        /\ \A task \in submitted : CompleteCount(task) <= ExecCount(task) /\ ExecCount(task) <= 1
        /\ \A w \in Slots : TraceAt(wpc[w], log[w], wtask[w])
        /\ \A j \in 1 .. Len(jobs) : TraceAt(jobs[j].pc, log[j], jobs[j].task))
  /\ \A task \in TaskIds(MaxTasks) :
       (Holders(task) # {} \/ JobsOf(task) # {})
         ~> (ExecCount(task) = 1 /\ CompleteCount(task) = 1)

\* C10 witness: of two workers, one has run two tasks to completion, one after
\* the other, and the other has run a third.
C10_Witness ==
  \E w1, w2 \in Slots :
    /\ w1 # w2
    /\ Len(log[w1]) = 4
    /\ Len(log[w2]) = 2

\* how many entries of deque q are the task reference task
Count(q, task) == Cardinality({i \in 1 .. Len(q) : q[i] = task})

\* C11 (as claimed): whatever the sequence of enqueue, dequeue, erase and
\* clear calls, with the same task reference enqueued more than once or not,
\* a task reference is in the queue at most once.
C11_AtMostOnceInQueue ==
  \A task \in TaskIds(MaxTasks) : Count(tasks, task) <= 1

\* the i-th direct call was enqueue(task)
EnqAt(i, task) == calls[i].op = "enqueue" /\ calls[i].task = task

\* the i-th direct call was a dequeue() that returned task
DeqAt(i, task) == calls[i].op = "dequeue" /\ calls[i].ret = task

\* the i-th direct call was erase(task)
EraseAt(i, task) == calls[i].op = "erase" /\ calls[i].task = task

\* task was handed to erase by some direct call
Erased(task) == \E i \in 1 .. Len(calls) : EraseAt(i, task)

\* some direct call was clear()
Cleared == \E i \in 1 .. Len(calls) : calls[i].op = "clear"

\* the latest erase(task) before call k (0 if there is none)
LastEraseBefore(k, task) ==
  LET before == {i \in 1 .. (k - 1) : EraseAt(i, task)}
  IN IF before = {} THEN 0 ELSE CHOOSE i \in before : \A j \in before : j <= i

\* the enqueue calls that can have put in the queue the entry returned by the
\* dequeue of call k: after the latest erase of that task, and with as many
\* enqueues of the task before it as there were dequeues of the task before k
SourcesOf(k) ==
  LET task == calls[k].ret
      e == LastEraseBefore(k, task)
  IN {j \in (e + 1) .. (k - 1) :
        /\ EnqAt(j, task)
        /\ Cardinality({i \in (e + 1) .. (j - 1) : EnqAt(i, task)})
             = Cardinality({i \in (e + 1) .. (k - 1) : DeqAt(i, task)})}

\* the entry put by enqueue call i had been returned by a dequeue before call k
TakenBefore(i, k) ==
  Cardinality({d \in 1 .. (k - 1) : DeqAt(d, calls[i].task)})
    >= Cardinality({j \in 1 .. i : EnqAt(j, calls[i].task)})

\* every dequeue that returned a task returned an entry enqueued before it, and
\* every never-erased entry enqueued before that one had been dequeued already
DequeuesFollowEnqueues ==
  \A k \in 1 .. Len(calls) :
    (calls[k].op = "dequeue" /\ calls[k].ret # NoTask) =>
      /\ SourcesOf(k) # {}
      /\ \A j \in SourcesOf(k) :
           \A i \in 1 .. (j - 1) :
             (calls[i].op = "enqueue" /\ ~Erased(calls[i].task)) => TakenBefore(i, k)

\* C12: each dequeue removes and returns the head of the queue, or returns
\* None and leaves the empty queue as it is; and in any sequence of enqueue,
\* erase and dequeue calls the dequeues return the entries in enqueue order: an
\* entry enqueued earlier whose task is never erased is returned before any
\* entry enqueued later.
C12_DequeueFollowsEnqueueOrder ==
  /\ [][QueueDequeue =>
          IF tasks = << >>
            THEN calls'[Len(calls')].ret = NoTask /\ tasks' = tasks
            ELSE /\ calls'[Len(calls')].ret = tasks[1]
                 /\ tasks' = SubSeq(tasks, 2, Len(tasks))]_vars
  /\ [](~Cleared => DequeuesFollowEnqueues)

\* C12 witness: two different tasks were enqueued, the first was erased and
\* enqueued again, and the dequeue that followed returned the second.
C12_Witness ==
  /\ Len(calls) = 5
  /\ calls[1].op = "enqueue"
  /\ calls[2].op = "enqueue"
  /\ calls[1].task # calls[2].task
  /\ EraseAt(3, calls[1].task)
  /\ EnqAt(4, calls[1].task)
  /\ DeqAt(5, calls[2].task)

\* C13: enqueue (and so add_task, which only forwards to it) succeeds
\* whatever the length of the queue: the task becomes the last entry, the
\* queue is one entry longer, and the entries already queued keep their
\* positions.
C13_EnqueueAppendsAtTail ==
  /\ [](\A task \in TaskIds(MaxTasks) :
          Len(calls) < MaxCalls => ENABLED QueueEnqueue(task))
  /\ [][\A task \in TaskIds(MaxTasks) :
          QueueEnqueue(task) =>
            /\ Len(tasks') = Len(tasks) + 1
            /\ tasks'[Len(tasks')] = task
            /\ \A i \in 1 .. Len(tasks) : tasks'[i] = tasks[i]]_vars

\* C13 witness: the latest call enqueued a task onto a queue of three entries
\* that already held the same reference.
C13_Witness ==
  /\ calls # << >>
  /\ calls[Len(calls)].op = "enqueue"
  /\ Len(tasks) = 4
  /\ tasks[4] = calls[Len(calls)].task
  /\ Count(tasks, tasks[4]) = 2

\* deque q without its entries that are task, the others in their order
RECURSIVE Without(_, _)
Without(q, task) ==
  IF q = << >> THEN << >>
  ELSE IF Head(q) = task THEN Without(Tail(q), task)
  ELSE <<Head(q)>> \o Without(Tail(q), task)

\* C14: erase(t) removes exactly the entries that are the reference t: after
\* it t is not queued, every other reference is queued as many times as
\* before (also one whose task holds the same content as t) and in the same
\* order, and when t was not queued the queue is unchanged.
C14_EraseRemovesByIdentity ==
  [][\A task \in TaskIds(MaxTasks) :
       QueueErase(task) =>
         /\ Count(tasks', task) = 0
         /\ \A other \in TaskIds(MaxTasks) \ {task} :
              Count(tasks', other) = Count(tasks, other)
         /\ tasks' = Without(tasks, task)
         /\ Count(tasks, task) = 0 => tasks' = tasks]_vars

\* C14 witness: erase(t) was called on a queue that held t twice and, between
\* the two, another task with the same content, which is still queued.
C14_Witness ==
  /\ Len(calls) = 4
  /\ EnqAt(1, calls[4].task)
  /\ calls[2].op = "enqueue"
  /\ calls[2].task # calls[4].task
  /\ ContentOf(calls[2].task) = ContentOf(calls[4].task)
  /\ EnqAt(3, calls[4].task)
  /\ calls[4].op = "erase"
  /\ tasks = <<calls[2].task>>

\* the jobs that hold task and have not finished it
InFlight(task) == {j \in JobsOf(task) : jobs[j].pc # "done"}

\* C15: clear() (called by AsyncThreadPool::terminate) leaves the queue empty
\* in one step and touches no task that was already dequeued: the spawned jobs
\* and what they have run are unchanged by it, and every job in flight when
\* the queue was cleared still runs on_execute and on_complete to the end.
C15_ClearSparesDequeuedTasks ==
  /\ [][AsyncTerminate =>
          /\ tasks' = << >>
          /\ jobs' = jobs
          /\ executed' = executed
          /\ completed' = completed]_vars
  /\ \A task \in TaskIds(MaxTasks) :
       (kind = "cooperative" /\ phase = "terminated" /\ InFlight(task) # {})
         ~> (ExecCount(task) = 1 /\ CompleteCount(task) = 1)

\* C15 witness: the queue was cleared (a submitted task is neither queued,
\* cancelled nor dequeued) while a job dequeued before the clear had not yet
\* run its task.
C15_Witness ==
  /\ kind = "cooperative"
  /\ phase = "terminated"
  /\ tasks = << >>
  /\ \E task \in submitted \ cancelled : JobsOf(task) = {}
  /\ \E j \in 1 .. Len(jobs) : jobs[j].pc = "on_execute" /\ jobs[j].task \notin parked

\* exactly one add_task has been called on the fresh pool, and since then no
\* cancel_task, no terminate() and no dequeue that returned the task
OneSubmit(task) ==
  /\ submitted = {task}
  /\ cancelled = {}
  /\ phase # "terminated"
  /\ Holders(task) = {}
  /\ JobsOf(task) = {}
  /\ ExecCount(task) = 0

\* C16: the queue of a fresh pool is empty (is_empty() is true as long as
\* nothing was submitted), and after exactly one add_task(t) on a fresh pool
\* the next dequeue that takes effect, by a worker thread or by the dispatcher
\* of the cooperative pool, returns t.
C16_FreshEmptyThenFirstSubmitDequeued ==
  /\ [](submitted = {} => is_empty(tasks))
  /\ [][\A task \in TaskIds(MaxTasks) : \A w \in Slots :
          (OneSubmit(task) /\ WorkerDequeue(w)) => wtask'[w] = task]_vars
  /\ [][\A task \in TaskIds(MaxTasks) :
          (OneSubmit(task) /\ DispatchDequeue) =>
            /\ Len(jobs') = Len(jobs) + 1
            /\ jobs'[Len(jobs')].task = task]_vars

\* C16 witness: one task was submitted to a pool of two workers that both
\* found the queue non-empty; the first dequeue returned the task and the
\* second found nothing.
C16_Witness ==
  /\ Cardinality(submitted) = 1
  /\ cancelled = {}
  /\ phase = "running"
  /\ \E w1, w2 \in Slots :
       /\ wpc[w1] = "on_execute"
       /\ wtask[w1] \in submitted
       /\ wpc[w2] = "yield"

\* C17: cancel_task(t) for a task that is not queued (never submitted,
\* already removed, being run or finished) is a no-op and never an error: the
\* call can always be made, and it leaves the queue, every worker's and job's
\* state and the record of what was executed as they were.
C17_CancelOfUnqueuedIsNoOp ==
  /\ [](\A task \in TaskIds(MaxTasks) :
          /\ (kind = "parallel" /\ cpc = "idle") => ENABLED CancelTask(task)
          /\ kind = "cooperative" => ENABLED AsyncCancelTask(task))
  /\ [][\A task \in TaskIds(MaxTasks) :
          ((CancelTask(task) \/ AsyncCancelTask(task)) /\ Count(tasks, task) = 0) =>
            UNCHANGED <<tasks, executorVars, threadVars, asyncVars, executed, completed>>]_vars

\* C17 witness: cancel_task has been called on a task that had already been
\* removed by an earlier cancel_task and on a task that was out of the queue
\* because it was being run or had been run; the latter was executed once, and
\* a task submitted after both is still queued.
C17_Witness ==
  \E a, b \in missed :
    /\ a \in cancelled
    /\ ExecCount(b) = 1 /\ CompleteCount(b) = 1
    /\ \E c \in Range(tasks) : c > a /\ c > b

\* some execution context was handed task by dequeue and has not finished it
Running(task) == Holders(task) # {} \/ InFlight(task) # {}

\* C18: a cancel_task(t) racing with the dequeue of t resolves either way.
\* When the cancel takes effect first, t has left the queue and is never run;
\* when the dequeue takes effect first, the cancel changes nothing and t's
\* on_execute and on_complete each still run exactly once, to the end.
C18_CancelRacesWithDequeue ==
  /\ [](\A task \in cancelled : ExecCount(task) = 0 /\ ~Running(task))
  /\ [](\A task \in missed \ cancelled :
          /\ ExecCount(task) <= 1
          /\ CompleteCount(task) <= ExecCount(task)
          /\ kind = "parallel" =>
               Running(task) \/ (ExecCount(task) = 1 /\ CompleteCount(task) = 1))
  /\ \A task \in TaskIds(MaxTasks) :
       (task \in missed /\ Running(task))
         ~> (ExecCount(task) = 1 /\ CompleteCount(task) = 1)

\* C18 witness: both outcomes in one run of two workers. Task a was
\* cancelled while queued, and a worker that had seen the queue non-empty
\* dequeued nothing; task b was cancelled after the other worker had dequeued
\* it and before its on_execute, which is about to run.
C18_Witness ==
  /\ kind = "parallel"
  /\ \E a \in cancelled : \E b \in missed \ cancelled : \E w1, w2 \in Slots :
       /\ wpc[w1] = "yield"
       /\ wpc[w2] = "on_execute"
       /\ wtask[w2] = b
       /\ ExecCount(b) = 0
       /\ a > b

\* a step of the caller inside ThreadPool::terminate
TerminateCall ==
  \/ ThreadPoolTerminate
  \/ TerminateThread
  \/ TerminateJoin
  \/ TerminateReturn

\* no dequeue has returned a task yet
NothingDequeued ==
  \A task \in submitted : ExecCount(task) = 0 /\ ~Running(task)

\* C19: ThreadPool::terminate() removes nothing from the queue: none of its
\* steps changes the queue, so as long as no worker has dequeued anything
\* (for example execute() was never called) the submitted tasks that were not
\* cancelled are all queued, in submission order, during and after terminate().
C19_TerminateLeavesQueue ==
  /\ [][TerminateCall => tasks' = tasks]_vars
  /\ []((kind = "parallel" /\ NothingDequeued) =>
          tasks = InSubmitOrder(submitted \ cancelled))

\* C19 witness: terminate() has returned on a pool whose execute() was never
\* reached by any task: the two tasks submitted before it are still queued.
C19_Witness ==
  /\ kind = "parallel"
  /\ phase = "terminated"
  /\ cpc = "idle"
  /\ parked = {}
  /\ NothingDequeued
  /\ tasks = <<0, 1>>

\* the sum of f over the slots 1 .. n
RECURSIVE SumTo(_, _)
SumTo(f, n) == IF n = 0 THEN 0 ELSE f[n] + SumTo(f, n - 1)

\* how many calls of on_execute have begun whose on_complete has not returned
RECURSIVE Executing(_)
Executing(S) ==
  IF S = {} THEN 0
  ELSE LET task == CHOOSE t \in S : TRUE
       IN (ExecCount(task) - CompleteCount(task)) + Executing(S \ {task})

\* C20: a parallel pool built with size N has N worker slots in every
\* reachable state: no step changes max_threads or adds or removes a slot, so
\* at most N worker threads are alive and at most N tasks are being executed
\* at any time.
C20_PoolSizeIsFixed ==
  /\ [][max_threads' = max_threads /\ DOMAIN thread' = DOMAIN thread]_vars
  /\ [](kind = "parallel" =>
          /\ DOMAIN thread = 1 .. max_threads
          /\ DOMAIN wpc = 1 .. max_threads
          /\ DOMAIN live = 1 .. max_threads
          /\ SumTo(live, max_threads) <= max_threads
          /\ Executing(submitted) <= max_threads)

\* C20 witness: a pool of size 2 with both worker threads alive and both
\* tasks they dequeued being executed, while a third task waits in the queue.
C20_Witness ==
  /\ kind = "parallel"
  /\ max_threads = 2
  /\ SumTo(live, max_threads) = 2
  /\ Executing(submitted) = 2
  /\ tasks # << >>

\* C21 (as claimed): on the cooperative pool execute() returns only once
\* terminate() has been called, yielding while the queue is empty; so a task
\* submitted while execute() has been called and terminate() has not is
\* dequeued and dispatched as a job (unless it is cancelled first).
C21_RunLoopsUntilTerminated ==
  /\ [][(DispatchIsEmpty /\ dpc' = "idle") => phase = "terminated"]_vars
  /\ \A task \in TaskIds(MaxTasks) :
       (kind = "cooperative" /\ phase = "running" /\ task \in Range(tasks))
         ~> (JobsOf(task) # {} \/ task \in cancelled \/ phase = "terminated")

\* task was submitted to the cooperative pool and left the queue without
\* being cancelled or dequeued: terminate() cleared it
Dropped(task) ==
  /\ kind = "cooperative"
  /\ task \in submitted \ cancelled
  /\ task \notin Range(tasks)
  /\ JobsOf(task) = {}

\* C22: on the cooperative pool terminate() only clears the queue. It can
\* return whatever the spawned jobs are doing and leaves them as they are; the
\* queue is empty when it returns, the tasks it removed are never dispatched
\* or executed, and a job that was dispatched and has not finished when
\* terminate() returns still runs to its end.
C22_AsyncTerminateOnlyClears ==
  /\ [](kind = "cooperative" => ENABLED AsyncTerminate)
  /\ [][AsyncTerminate => (tasks' = << >> /\ asyncVars' = asyncVars)]_vars
  /\ [](\A task \in TaskIds(MaxTasks) : Dropped(task) => ExecCount(task) = 0)
  /\ [][\A task \in TaskIds(MaxTasks) : Dropped(task) => Dropped(task)']_vars
  /\ \A j \in 1 .. MaxTasks :
       (phase = "terminated" /\ j <= Len(jobs) /\ jobs[j].pc # "done")
         ~> (j <= Len(jobs) /\ jobs[j].pc = "done")

\* C22 witness: terminate() has returned, having removed a queued task, while
\* a job dispatched before it has run on_execute and not yet on_complete.
C22_Witness ==
  /\ phase = "terminated"
  /\ tasks = << >>
  /\ parked = {}
  /\ \E task \in TaskIds(MaxTasks) : Dropped(task)
  /\ \E j \in 1 .. Len(jobs) :
       jobs[j].pc = "on_complete" /\ ExecCount(jobs[j].task) = 1

\* the worker thread of some slot is in its loop
SomeWorkerLive ==
  \E w \in Slots : wpc[w] \in {"is_empty", "dequeue", "on_execute", "on_complete", "yield"}

\* no thread of the pool was ended from outside
NoneKilled == \A w \in Slots : wpc[w] # "killed"

\* a task that faulted is neither queued again nor handed to a worker again,
\* and none of its calls is run again
NotRetried(task) ==
  /\ task \notin Range(tasks)
  /\ Holders(task) = {}
  /\ ExecCount(task) <= 1
  /\ CompleteCount(task) = 0

\* C23 (as claimed): a panic inside a task's on_execute or on_complete on the
\* parallel pool ends only the worker thread that was running it. The task is
\* not retried or re-enqueued, no other execution context (the caller, the
\* other workers) is ended by it, and the workers that are live go on to
\* dequeue and execute every task that is still queued.
C23_FaultEndsOnlyItsWorker ==
  /\ [](\A task \in faulted : NotRetried(task))
  /\ [](cpc # "panicked" /\ NoneKilled)
  /\ \A task \in TaskIds(MaxTasks) :
       (faulted # {} /\ task \in Range(tasks) /\ SomeWorkerLive)
         ~> \/ ExecCount(task) = 1
            \/ task \in cancelled \cup faulted
            \/ (NoneKilled /\ ~SomeWorkerLive)

(* ----------------------- properties of the ParameterManager ----------- *)

\* the latest call was set_parameter on key
SetOn(key) == pmcall.op = "set_parameter" /\ pmcall.key = key

\* the callback calls the latest call made with key
NotesFor(key) == {note \in DOMAIN notified : note.key = key}

\* the keys a "ro." rule can be about
ReadOnlyKeys == {key \in Keys \cup DOMAIN params : starts_with(key, "ro.")}

\* once a "ro." key holds a value, no call changes it or notifies a listener of it
ReadOnlyKept ==
  \A key \in ReadOnlyKeys :
    key \in DOMAIN params =>
      /\ key \in DOMAIN params'
      /\ params'[key] = params[key]
      /\ NotesFor(key)' = {}

\* C24 as stated: once a key whose name starts with "ro." holds a value, every
\* later set_parameter on it leaves the stored value unchanged and notifies no
\* listener; the first set of such a key stores the value (the text of the
\* value as set_parameter reads it: trimmed)
C24_ReadOnlyAfterFirstSet ==
  [][/\ ReadOnlyKept
     /\ \A key \in ReadOnlyKeys :
          (key \notin DOMAIN params /\ SetOn(key)') =>
            (key \in DOMAIN params' /\ params'[key] = trim(pmcall'.value))]_vars

\* C24 as amended: once a key whose name starts with "ro." holds a value, every
\* later set_parameter on it (a restore_from_stream's too) leaves the stored
\* value unchanged and notifies no listener; the first set of such a key
\* stores the value when the key has no rule, and under a rule stores what the
\* rule makes of the value, or nothing when the rule rejects it
C24_ReadOnlyAfterAcceptedSet ==
  [][/\ ReadOnlyKept
     /\ \A key \in ReadOnlyKeys :
          (key \notin DOMAIN params /\ SetOn(key)') =>
            LET f == filter_value_with_rule(param_rules, key, trim(pmcall'.value))
            IN  /\ key \notin DOMAIN param_rules =>
                     (key \in DOMAIN params' /\ params'[key] = trim(pmcall'.value))
                /\ f.ok => (key \in DOMAIN params' /\ params'[key] = f.value)
                /\ ~f.ok => key \notin DOMAIN params']_vars

\* a "ro." key that holds a value and has a listener was set again, to another value
C24_Witness ==
  /\ SetOn("ro.a")
  /\ "ro.a" \in DOMAIN params
  /\ param_rules = EmptyMap
  /\ params["ro.a"] # trim(pmcall.value)
  /\ "ro.a" \in DOMAIN listeners
  /\ DOMAIN notified = {}

\* the listeners set_parameter(key, ..) is to call: those registered for
\* exactly key and those registered for a wildcard prefix of key
ListenersOf(key) ==
  (IF key \in DOMAIN listeners THEN Range(listeners[key]) ELSE {})
    \cup UNION {Range(wild_card_listeners[a_key]) :
                  a_key \in {a \in DOMAIN wild_card_listeners : starts_with(key, a)}}

\* each listener of key called exactly once with (key, value), and nothing else
OnceEach(key, value) ==
  [note \in {[id |-> id, key |-> key, value |-> value] : id \in ListenersOf(key)} |-> 1]

\* C25 as stated: a set_parameter(k, v) that is accepted (the key's rule does
\* not reject v, and k is not a "ro." key already holding a value) calls each
\* listener registered for exactly k and each listener registered for a wildcard
\* prefix of k exactly once with (k, v) when k had no value or a different
\* value before, and calls no listener when the stored value already equals v
\* or when the rule rejects v (v: the text as set_parameter reads it, trimmed)
C25_ListenersCalledOnceOnChange ==
  [][\A key \in Keys :
       SetOn(key)' =>
         LET v == trim(pmcall'.value)
             f == filter_value_with_rule(param_rules, key, v)
             kept == key \in DOMAIN params /\ starts_with(key, "ro.")
             same == key \in DOMAIN params /\ params[key] = v
         IN  /\ (f.ok /\ ~kept /\ ~same) => notified' = OnceEach(key, v)
             /\ (~f.ok \/ (~kept /\ same)) => DOMAIN notified' = {}]_vars

\* C25 as amended: a set_parameter(k, v) that the key's rule accepts, on a key
\* other than a "ro." key already holding a value, calls each listener
\* registered for exactly k and each listener registered for a wildcard prefix
\* of k exactly once with (k, w), w being the value as stored (v trimmed and,
\* under a Ranged rule, clamped), when k had no value or a value other than w
\* before; it calls no listener when the stored value already equals w, when
\* the rule rejects v, or when k is a "ro." key already holding a value
C25_ListenersCalledOnceOnStoredChange ==
  [][\A key \in Keys :
       SetOn(key)' =>
         LET f == filter_value_with_rule(param_rules, key, trim(pmcall'.value))
             kept == key \in DOMAIN params /\ starts_with(key, "ro.")
             same == key \in DOMAIN params /\ params[key] = f.value
         IN  /\ (f.ok /\ ~kept /\ ~same) => notified' = OnceEach(key, f.value)
             /\ (~f.ok \/ kept \/ same) => DOMAIN notified' = {}]_vars

\* set_parameter("a", ..) has just called a listener registered for "a" and a
\* listener registered for a wildcard prefix of "a", once each
C25_Witness ==
  /\ SetOn("a")
  /\ "a" \in DOMAIN listeners
  /\ \E note \in DOMAIN notified : note.id \in Range(listeners["a"])
  /\ \E a_key \in DOMAIN wild_card_listeners :
       \E note \in DOMAIN notified : note.id \in Range(wild_card_listeners[a_key])
  /\ \A note \in DOMAIN notified :
       notified[note] = 1 /\ note.key = "a" /\ note.value = params["a"]

\* key has a RangeEnum rule
HasEnumRule(key) == key \in DOMAIN param_rules /\ param_rules[key].range = "RangeEnum"

\* the value stored for key is what it was before the step, or as absent as before
StoredStays(key) ==
  /\ key \in DOMAIN params' <=> key \in DOMAIN params
  /\ key \in DOMAIN params => params'[key] = params[key]

\* C26 as stated: for a key with a RangeEnum rule, set_parameter with a value
\* outside the rule's enum set is rejected, the stored value staying what it
\* was (or staying absent), while a value inside the set is stored
C26_EnumRuleRejectsOutsiders ==
  [][\A key \in Keys :
       (HasEnumRule(key) /\ SetOn(key)') =>
         LET v == trim(pmcall'.value)
         IN  /\ v \notin param_rules[key].enum_vals => StoredStays(key)
             /\ v \in param_rules[key].enum_vals =>
                  (key \in DOMAIN params' /\ params'[key] = v)]_vars

\* C26 as amended: for a key with a RangeEnum rule, set_parameter with a value
\* outside the rule's enum set is rejected, the stored value staying what it
\* was (or staying absent), while a value inside the set is stored unless the
\* key is a "ro." key that already holds a value, whose value stays too
C26_EnumRuleRejectsOutsidersOnly ==
  [][\A key \in Keys :
       (HasEnumRule(key) /\ SetOn(key)') =>
         LET v == trim(pmcall'.value)
             kept == key \in DOMAIN params /\ starts_with(key, "ro.")
         IN  /\ (v \notin param_rules[key].enum_vals \/ kept) => StoredStays(key)
             /\ (v \in param_rules[key].enum_vals /\ ~kept) =>
                  (key \in DOMAIN params' /\ params'[key] = v)]_vars

\* "a" has a RangeEnum rule and holds a value of the enum set, and a
\* set_parameter with a value outside the set has just been made on it
C26_Witness ==
  /\ HasEnumRule("a")
  /\ SetOn("a")
  /\ trim(pmcall.value) \notin param_rules["a"].enum_vals
  /\ "a" \in DOMAIN params
  /\ params["a"] \in param_rules["a"].enum_vals

\* key has a Ranged TypeInt rule
HasIntRule(key) ==
  /\ key \in DOMAIN param_rules
  /\ param_rules[key].range = "Ranged"
  /\ param_rules[key].param_type = "TypeInt"

\* C27: for a key with a Ranged TypeInt rule [min, max], an out-of-range request
\* is clamped rather than rejected, so that after any set_parameter call on that
\* key get_parameter_int for the key returns a value in [min, max] (stated for
\* the keys set_parameter writes every time, those not starting with "ro.",
\* and with a default that is itself in the range)
C27_IntRuleKeepsValueInRange ==
  \A key \in Keys :
    (HasIntRule(key) /\ SetOn(key) /\ ~starts_with(key, "ro.")) =>
      /\ key \in DOMAIN params
      /\ get_parameter_int(key, param_rules[key].range_min)
           \in param_rules[key].range_min .. param_rules[key].range_max

\* the lines restore_from_stream reads from a stream, in order
RECURSIVE LinesOf(_)
LinesOf(reader) ==
  IF reader = ""
    THEN << >>
    ELSE LET line == read_line(reader)
         IN  <<line>> \o LinesOf(SubSeq(reader, Len(line) + 1, Len(reader)))

\* a line as restore_from_stream reads it: whether it takes it for a pair, and
\* the key and the value it takes from it
PairRead(line) ==
  LET tokens == split(trim(line), "\":\"")
  IN  IF Len(tokens) = 2
        THEN [ok |-> TRUE, key |-> trim_matches(tokens[1], "\""),
              value |-> trim_matches(tokens[2], "\"")]
        ELSE [ok |-> FALSE, key |-> "", value |-> ""]

\* s has no double quote
Unquoted(s) == \A i \in 1 .. Len(s) : CharAt(s, i) # "\""

\* a well-formed line, as store_to_stream writes one: "key":"value", key and
\* value without double quotes
WellFormed(line) ==
  LET t == trim(line)
      tokens == split(SubSeq(t, 2, Len(t) - 1), "\":\"")
  IN  /\ Len(t) >= 2
      /\ Head(t) = "\""
      /\ CharAt(t, Len(t)) = "\""
      /\ Len(tokens) = 2
      /\ Unquoted(tokens[1])
      /\ Unquoted(tokens[2])

\* the keys of the well-formed lines of a stream
WellFormedKeys(stream) ==
  {PairRead(line).key : line \in {l \in Range(LinesOf(stream)) : WellFormed(l)}}

\* the values a stream gives for key, as set_parameter reads them
StreamValues(stream, key) ==
  {trim(PairRead(line).value) :
     line \in {l \in Range(LinesOf(stream)) : PairRead(l).ok /\ PairRead(l).key = key}}

\* the step is a call of restore_from_stream
Restoring == pmcall'.op = "restore_from_stream"

\* C28 as stated: restore_from_stream with override_existing = false never
\* changes the value of a key that is already present and sets every
\* well-formed key that is absent; with override_existing = true every
\* well-formed line's key takes the value from the stream
C28_RestoreHonoursOverride ==
  [][Restoring =>
       LET stream == pmcall'.stream
       IN  IF pmcall'.override_existing
             THEN \A key \in WellFormedKeys(stream) :
                    /\ key \in DOMAIN params'
                    /\ params'[key] \in StreamValues(stream, key)
             ELSE /\ \A key \in DOMAIN params :
                       key \in DOMAIN params' /\ params'[key] = params[key]
                  /\ \A key \in WellFormedKeys(stream) \ DOMAIN params :
                       key \in DOMAIN params']_vars

\* C28 as amended: restore_from_stream with override_existing = false never
\* changes the value of a key that is already present and sets every
\* well-formed key that is absent and has no rule; with override_existing =
\* true every well-formed line's key takes the value from the stream unless the
\* key has a rule (which may reject or clamp the value) or is a "ro." key that
\* already holds a value (which it keeps)
C28_RestoreHonoursOverrideAndKeys ==
  [][Restoring =>
       LET stream == pmcall'.stream
           free == WellFormedKeys(stream) \ DOMAIN param_rules
       IN  IF pmcall'.override_existing
             THEN /\ \A key \in free :
                       ~(key \in DOMAIN params /\ starts_with(key, "ro.")) =>
                         /\ key \in DOMAIN params'
                         /\ params'[key] \in StreamValues(stream, key)
                  /\ ReadOnlyKept
             ELSE /\ \A key \in DOMAIN params :
                       key \in DOMAIN params' /\ params'[key] = params[key]
                  /\ \A key \in free \ DOMAIN params :
                       /\ key \in DOMAIN params'
                       /\ params'[key] \in StreamValues(stream, key)]_vars

\* restore_from_stream without override has read a well-formed line for "a",
\* which held another value and keeps it, and one for "ro.a", which was absent
\* and now holds the value of the stream
C28_Witness ==
  /\ pmcall.op = "restore_from_stream"
  /\ ~pmcall.override_existing
  /\ pmcall.stream = "\"a\":\"5\"\n\"ro.a\":\"11\"\n"
  /\ pmcount = 2
  /\ DOMAIN params = {"a", "ro.a"}
  /\ params["a"] = "11"
  /\ params["ro.a"] = "11"

\* C29: restore_from_stream returns true exactly when at least one line of the
\* input is a well-formed "key":"value" pair, and false otherwise (for empty
\* input too); a malformed line adds no key, and does not stop the well-formed
\* lines after it from being applied (shown on the keys that no rule guards)
C29_RestoreResultTellsWellFormedLine ==
  [][Restoring =>
       LET stream == pmcall'.stream
       IN  /\ pmcall'.ret <=> \E line \in Range(LinesOf(stream)) : WellFormed(line)
           /\ DOMAIN params' \ DOMAIN params \subseteq WellFormedKeys(stream)
           /\ \A key \in WellFormedKeys(stream) \ DOMAIN param_rules :
                key \in DOMAIN params']_vars

(* ------------------------- properties of the demo --------------------- *)

\* main() has come to its end: terminate() has returned
DemoEnded == main = << >> /\ cpc = "idle" /\ phase = "terminated"

\* C30: in the parallel demo sequence (submit a batch, execute(), let the batch
\* drain, submit further tasks without calling execute() again, terminate()),
\* the tasks submitted after the first batch drained have been executed when
\* terminate() returns
C30_LateTasksRunBeforeTerminateReturns ==
  DemoEnded =>
    \A task \in TaskIds(DemoTasks + DemoMoreTasks) \ TaskIds(DemoTasks) :
      ExecCount(task) = 1 /\ CompleteCount(task) = 1

(* ------------------ properties of the worker loop --------------------- *)

\* worker w moves on from the step it is at
Leaves(w, pc) == wpc[w] = pc /\ wpc'[w] # pc

\* the dispatcher of the cooperative pool moves on from the step it is at
DispatcherLeaves(pc) == dpc = pc /\ dpc' # pc

\* no on_execute and no on_complete runs in this step
NothingRuns == executed' = executed /\ completed' = completed

\* in this step on_execute(task) is run by the context that dequeue handed task to
RunByItsTaker(task) ==
  \/ \E w \in Slots :
       /\ Leaves(w, "on_execute")
       /\ wtask[w] = task
       /\ wtask'[w] = task
  \/ \E j \in 1 .. Len(jobs) :
       /\ jobs[j].pc = "on_execute"
       /\ jobs'[j].pc # "on_execute"
       /\ jobs[j].task = task

\* C31: a worker (a thread of the parallel pool, the dispatcher of the
\* cooperative pool) that saw the queue non-empty and is then handed nothing
\* by dequeue runs no task in that iteration: it yields, tests the queue
\* again, and leaves its loop normally once it sees the queue empty.  A task
\* reaches a context only as the head of the queue that its own dequeue
\* removed, and on_execute(task) is run only by the context holding task.
C31_FailedDequeueIsTolerated ==
  /\ [][\A w \in Slots :
          /\ (Leaves(w, "dequeue") /\ is_empty(tasks)) =>
               (wpc'[w] = "yield" /\ wtask'[w] = NoTask /\ NothingRuns)
          /\ Leaves(w, "yield") =>
               (wpc'[w] = "is_empty" /\ wtask'[w] = NoTask /\ NothingRuns)
          /\ (Leaves(w, "is_empty") /\ is_empty(tasks)) =>
               (wpc'[w] = "exited" /\ NothingRuns)
          /\ (wtask'[w] # wtask[w] /\ wtask'[w] # NoTask) =>
               (Leaves(w, "dequeue") /\ ~is_empty(tasks)
                  /\ wtask'[w] = Head(tasks) /\ tasks' = Tail(tasks))]_vars
  /\ [][/\ (DispatcherLeaves("dequeue") /\ is_empty(tasks)) =>
             (dpc' = "yield" /\ jobs' = jobs /\ NothingRuns)
        /\ DispatcherLeaves("yield") =>
             (dpc' = "is_empty" /\ jobs' = jobs /\ NothingRuns)
        /\ (DispatcherLeaves("is_empty") /\ is_empty(tasks)) =>
             (dpc' = "idle" /\ NothingRuns)
        /\ Len(jobs') > Len(jobs) =>
             (DispatcherLeaves("dequeue") /\ ~is_empty(tasks)
                /\ jobs' = Append(jobs, [task |-> Head(tasks), pc |-> "on_execute"])
                /\ tasks' = Tail(tasks))]_vars
  /\ [][\A task \in DOMAIN executed :
          executed'[task] # executed[task] => RunByItsTaker(task)]_vars
  /\ [](faulted = {} /\ \A w \in Slots : wpc[w] # "panicked")
  /\ \A w \in 1 .. MaxThreads : (w \in Slots /\ wpc[w] = "yield") ~> (w \in Slots /\ wpc[w] = "exited")
  /\ (dpc = "yield") ~> (dpc = "idle")

\* C31 witness: two workers saw the only queued task; one took it and is
\* about to run it, the other was handed nothing and is yielding, holding
\* no task, and no cancel was involved.
C31_Witness ==
  /\ kind = "parallel"
  /\ cancelled = {}
  /\ tasks = << >>
  /\ \E w1, w2 \in Slots :
       /\ wpc[w1] = "yield"
       /\ wtask[w1] = NoTask
       /\ wpc[w2] = "on_execute"
       /\ wtask[w2] # NoTask
       /\ ExecCount(wtask[w2]) = 0

\* C32 (as claimed): while a thread of the parallel pool is executing a task
\* (its on_execute has run and its on_complete has not ended), the slot's
\* current_running_task designates that task, so that the lookup of
\* cancel_task_if_running finds it; a slot that holds no task designates none.
C32_RunningTaskIsDesignated ==
  kind = "parallel" =>
    \A w \in Slots :
      /\ wpc[w] = "on_complete" =>
           (current_running_task[w] = wtask[w] /\ cancel_task_if_running(w, wtask[w]))
      /\ wtask[w] = NoTask => current_running_task[w] = NoTask

\* the thread of slot w is inside the loop of _execute
InLoop(w) ==
  w \in Slots /\ wpc[w] \in {"is_empty", "dequeue", "on_execute", "on_complete", "yield"}

\* C33: on the parallel pool, where every on_execute and on_complete ends and
\* only finitely many tasks are submitted, fair scheduling brings every
\* started worker loop to see the queue empty and return, and so every call
\* of terminate() returns.
C33_WorkersExitAndTerminateReturns ==
  /\ \A w \in 1 .. MaxThreads :
       InLoop(w) ~> (w \in Slots /\ wpc[w] = "exited" /\ live[w] = 0)
  /\ (kind = "parallel" /\ cpc = "terminate")
       ~> (cpc = "idle" /\ phase = "terminated" /\ \A w \in Slots : wpc[w] = "none")

\* C33 witness: terminate() has returned on a pool of two workers after all
\* the tasks submitted, at least two, were executed and completed and the
\* queue was seen empty.
C33_Witness ==
  /\ kind = "parallel"
  /\ max_threads = 2
  /\ phase = "terminated"
  /\ cpc = "idle"
  /\ tasks = << >>
  /\ Cardinality(submitted) >= 2
  /\ cancelled = {}
  /\ \A task \in submitted : ExecCount(task) = 1 /\ CompleteCount(task) = 1

\* terminate() has just returned, and it had found a worker thread live
ReturnedFromDrain ==
  kind = "parallel" /\ phase = "terminated" /\ cpc = "idle" /\ liveAtCall

\* C34: the stopping flag that terminate() sets does not end a worker's loop:
\* a worker whose flag is set goes on to dequeue while the queue is not
\* empty.  When terminate() is called while some worker thread is live and
\* nothing is submitted during the call, then at its return the queue is
\* empty and every task that was submitted and not cancelled while queued
\* has had on_execute and on_complete run.
C34_TerminateReturnsAfterTheDrain ==
  /\ [][\A w \in Slots :
          (stopping[w] /\ Leaves(w, "is_empty") /\ ~is_empty(tasks)) =>
            wpc'[w] = "dequeue"]_vars
  /\ [](ReturnedFromDrain =>
          /\ is_empty(tasks)
          /\ \A task \in submitted \ cancelled :
               ExecCount(task) = 1 /\ CompleteCount(task) = 1)

\* C34 witness: terminate() was called on two workers with a worker live,
\* and has returned: the two tasks or more that had been submitted are all
\* executed and completed.
C34_Witness ==
  /\ ReturnedFromDrain
  /\ max_threads = 2
  /\ Cardinality(submitted \ cancelled) >= 2
  /\ \A task \in submitted \ cancelled : CompleteCount(task) = 1

(* ---------------------- properties of get_manager --------------------- *)

\* the handles get_manager has returned
Handles == 1 .. Len(handles)

\* the manager behind the handle returned last
Newest == Behind(Len(handles))

\* C35: every call of ParameterManager::get_manager returns a handle to a
\* manager of its own, new and independent of the managers behind the handles
\* returned before: no two handles point to the same manager, and a
\* set_parameter or register_callback made through one handle leaves the
\* manager behind every other handle as it was (maps, listeners and ids).
C35_EveryHandleHasItsOwnManager ==
  /\ [](\A h1, h2 \in Handles : handles[h1] = handles[h2] => h1 = h2)
  /\ [][Len(handles') > Len(handles) =>
          /\ Newest' = NewManager
          /\ \A h \in Handles : Behind(h)' = Behind(h)]_vars
  /\ [][pmcount' # pmcount =>
          \A h \in Handles : h # guard => Behind(h)' = Behind(h)]_vars

\* C35 witness: of two handles, the first was used to set a parameter and to
\* register a listener; the caller now holds the second locked and sees a
\* manager with no parameter and no listener.
C35_Witness ==
  /\ Len(handles) = 2
  /\ guard = 2
  /\ Behind(1).params # EmptyMap
  /\ Behind(1).listener_id = 1
  /\ params = EmptyMap
  /\ listeners = EmptyMap
  /\ wild_card_listeners = EmptyMap
  /\ listener_id = 0

=============================================================================
